---- MODULE Spec2Model ----
(***************************************************************************)
(* A model of the Coup bot (src/newbot.py): one table (guild), its game    *)
(* state, the command handlers and the response window.                     *)
(*                                                                          *)
(* A command handler is a coroutine.  The points where it is modelled as    *)
(* suspended, so that other commands of the table may run, are the long     *)
(* waits: a response window (wait_for_reaction), the exchange selection     *)
(* wait, the join countdown and the DM phase of start.  The code between    *)
(* two of these points is one step (the message sends and one-second sleeps *)
(* inside it are not modelled as interleaving points).                      *)
(*                                                                          *)
(* Spec is the table from its construction: start, end, the actions and     *)
(* users leaving the server.  SpecTurn is one command on a running game,    *)
(* SpecRace is commands that overlap on a running game, SpecOrder is one    *)
(* command of a later player of the roster with members leaving, SpecLive   *)
(* is one command with time passing on its response windows, SpecReset is   *)
(* a command, an end and a further start, SpecAgain is the table after a    *)
(* start that ended without a game, SpecRich is one command with a player   *)
(* at the forced-coup balance, SpecWear is a game of successive exchanges,  *)
(* and SpecWin is one response window step by step.                         *)
(***************************************************************************)
EXTENDS Integers, Sequences, FiniteSets, TLC

VARIABLES
    players,          \* game_state['players']: the roster keys, in dict order
    cards,            \* game_state['players'][p]["cards"]
    coins,            \* game_state['players'][p]["coins"]
    court_deck,       \* game_state['court_deck'] (the top is the last element)
    discarded_cards,  \* game_state['discarded_cards']
    game_started,     \* game_state['game_started']
    current_player,   \* game_state['current_player']
    members,          \* the users ctx.guild.get_member still finds
    cmds,             \* the command coroutines in flight, one per slot
    announce,         \* the last message the last step sent to the channel
    reply,            \* the last rejected command and its reason
    ncmds,            \* commands accepted so far (the model's budget)
    last,             \* what the last step of a handler was given and found
    w_pc,             \* wait_for_reaction: where the window is
    w_i,              \* wait_for_reaction: the countdown index i
    w_valid,          \* wait_for_reaction: valid_emojis, in order
    w_init,           \* wait_for_reaction: action_initiator
    w_reactions,      \* the reactions on the prompt, in the order they were made
    w_event,          \* the reaction_add event bot.wait_for has captured
    w_processed,      \* wait_for_reaction: processed_reactions
    w_result          \* what wait_for_reaction has returned (at most one entry)

gvars == <<players, cards, coins, court_deck, discarded_cards, game_started,
           current_player>>
wvars == <<w_pc, w_i, w_valid, w_init, w_reactions, w_event, w_processed, w_result>>
vars == <<players, cards, coins, court_deck, discarded_cards, game_started,
          current_player, members, cmds, announce, reply, ncmds, last,
          w_pc, w_i, w_valid, w_init, w_reactions, w_event, w_processed, w_result>>

(***************************************************************************)
(* Bounds of the model.                                                     *)
(***************************************************************************)
MaxCmds == 2        \* commands (start, end, actions) accepted per run
MaxLeaves == 1      \* users that leave the server per run
MaxActive == 2      \* command coroutines in flight at once
NumShuffles == 2    \* outcomes of random.shuffle of the deck that are explored
MaxReacts == 3      \* reactions made on one prompt
MaxWear == 6           \* commands of a game of exchanges

(***************************************************************************)
(* Program constants.                                                       *)
(***************************************************************************)
Copies == 3             \* copies of each card kind in the deck
StartCoins == 2         \* coins of a joined player
MinPlayers == 2         \* players needed to start
ForcedCoupCoins == 10   \* coins from which only coup is allowed
CoupCost == 7
AssassinateCost == 3
WindowTimeout == 5
\* the number emojis the selection of an exchange accepts
ChoiceEmojis == 4      \* wait_for_reaction's default timeout

Users == {"u1", "u2", "u3"}
None == "None"
Kinds == {"Duke", "Assassin", "Contessa", "Captain", "Ambassador"}
Challenge == "challenge"    \* the question-mark emoji
Block == "block"            \* the no-entry emoji
Slots == 1..MaxActive

(***************************************************************************)
(* Sequences.                                                               *)
(***************************************************************************)
Range(s) == {s[i] : i \in 1..Len(s)}
Front(s) == SubSeq(s, 1, Len(s) - 1)
Last(s) == s[Len(s)]
IndexOf(s, x) == CHOOSE i \in 1..Len(s) : s[i] = x /\ \A j \in 1..(i - 1) : s[j] # x
RemoveAt(s, i) == SubSeq(s, 1, i - 1) \o SubSeq(s, i + 1, Len(s))
\* list.remove(x): the first occurrence
RemoveFirst(s, x) == RemoveAt(s, IndexOf(s, x))
Without(s, x) == SelectSeq(s, LAMBDA y : y # x)
Count(s, x) == Cardinality({i \in 1..Len(s) : s[i] = x})
Perms(S) == {p \in [1..Cardinality(S) -> S] : \A i, j \in 1..Cardinality(S) : p[i] = p[j] => i = j}
Rotate(s, k) == SubSeq(s, k + 1, Len(s)) \o SubSeq(s, 1, k)
RECURSIVE SumHands(_, _)
SumHands(c, S) == IF S = {} THEN 0
                  ELSE LET p == CHOOSE q \in S : TRUE
                       IN Len(c[p]) + SumHands(c, S \ {p})

(***************************************************************************)
(* The deck.                                                                *)
(***************************************************************************)
KindList == <<"Duke", "Assassin", "Contessa", "Captain", "Ambassador">>
\* ["Duke", "Assassin", "Contessa", "Captain", "Ambassador"] * 3
FreshDeck == [i \in 1..(Copies * Len(KindList)) |-> KindList[((i - 1) % Len(KindList)) + 1]]
\* random.shuffle(court_deck): the orders the model explores
shuffle_deck == {Rotate(FreshDeck, 2 * k) : k \in 0..(NumShuffles - 1)}
IsFreshDeck(d) == /\ Len(d) = Copies * Len(KindList)
                  /\ \A k \in Kinds : Count(d, k) = Copies

(***************************************************************************)
(* The game state as a value: the handlers below are functions from the     *)
(* game state to the game state.  err is set when the code raises (a        *)
(* KeyError on a player who is not in the roster) or never returns: the     *)
(* rest of the handler is then skipped.  r_* hold the values the helper     *)
(* called last returned.                                                    *)
(***************************************************************************)
\* A slot with no command in it.  pc: w1 (the action's response window), w2
\* (the window on a block), select (the exchange selection wait), lobby (the
\* join countdown of start), dm (start sending the hands).
CmdIdle == [kind |-> "none", author |-> None, target |-> None, pc |-> "idle",
            reactor |-> None, icc |-> 0, all_cards |-> <<>>, plist |-> <<>>]

GS == [players |-> players, cards |-> cards, coins |-> coins,
       court_deck |-> court_deck, discarded_cards |-> discarded_cards,
       game_started |-> game_started, current_player |-> current_player,
       announce |-> "none", err |-> FALSE, hang |-> FALSE,
       r_legit |-> FALSE, r_ended |-> FALSE, r_elim |-> None, r_next |-> None,
       c |-> CmdIdle]

Commit(g) == /\ players' = g.players
             /\ cards' = g.cards
             /\ coins' = g.coins
             /\ court_deck' = g.court_deck
             /\ discarded_cards' = g.discarded_cards
             /\ game_started' = g.game_started
             /\ current_player' = g.current_player
             /\ announce' = IF g.hang THEN "no_return"
                          ELSE IF g.err THEN "command_error" ELSE g.announce

Raise(g) == [g EXCEPT !.err = TRUE]
\* a loop of the handler never ends: no await is reached again, and the event
\* loop of the bot runs nothing else
Hang(g) == [g EXCEPT !.err = TRUE, !.hang = TRUE]
Say(g, msg) == IF g.err THEN g ELSE [g EXCEPT !.announce = msg]
InRoster(g, p) == p \in Range(g.players)

\* del game_state['players'][p]
DelPlayer(g, p) == [g EXCEPT !.players = Without(g.players, p),
                             !.cards[p] = <<>>, !.coins[p] = 0]

is_player_alive(g, p) == InRoster(g, p) /\ Len(g.cards[p]) > 0

AlivePlayers(g) == SelectSeq(g.players, LAMBDA p : is_player_alive(g, p))

check_win_condition(g) ==
    IF Len(AlivePlayers(g)) = 1 THEN AlivePlayers(g)[1] ELSE None

\* The next alive player after current in roster order, wrapping around.  The
\* callers check first that current is in the roster (list.index raises
\* otherwise) and that some player is alive (the while loop never ends
\* otherwise).
get_next_player(g, current) ==
    LET n == Len(g.players)
        i == IndexOf(g.players, current)
        at(k) == g.players[((i - 1 + k) % n) + 1]
        k == CHOOSE k \in 1..n : /\ is_player_alive(g, at(k))
                                 /\ \A j \in 1..(k - 1) : ~is_player_alive(g, at(j))
    IN at(k)

CanNext(g, current) == InRoster(g, current) /\ Len(AlivePlayers(g)) > 0

\* The reset of the table after a win and in end; d is the shuffled fresh deck.
ResetTable(g, d) ==
    [g EXCEPT !.game_started = FALSE,
              !.players = <<>>,
              !.cards = [u \in Users |-> <<>>],
              !.coins = [u \in Users |-> 0],
              !.current_player = None,
              !.court_deck = d,
              !.discarded_cards = <<>>]

\* a variant in which the lost card is not put on the discard pile
lose_influence_with_reveal_hides(g, p) ==
    IF g.err \/ ~InRoster(g, p) \/ Len(g.cards[p]) = 0 THEN g
    ELSE [g EXCEPT !.cards[p] = Front(@)]

lose_influence_with_reveal(g, p) ==
    IF g.err THEN g
    ELSE IF ~InRoster(g, p) THEN Raise(g)
    ELSE IF Len(g.cards[p]) = 0 THEN g
    ELSE [g EXCEPT !.cards[p] = Front(@),
                   !.discarded_cards = Append(@, Last(g.cards[p]))]

\* a variant that never removes the player: to see which properties rest
\* on the removal
handle_player_elimination_keeps(g, p, d) ==
    IF g.err THEN g
    ELSE [g EXCEPT !.r_elim = None, !.r_ended = FALSE, !.r_next = None]

handle_player_elimination(g, p, d) ==
    IF g.err THEN g
    ELSE IF ~InRoster(g, p) THEN Raise(g)
    ELSE IF Len(g.cards[p]) = 0
    THEN IF ~CanNext(g, p) THEN Hang(g)
         ELSE LET nxt == get_next_player(g, p)
                  g1 == DelPlayer(g, p)
              IN IF check_win_condition(g1) # None
                 THEN [ResetTable(g1, d) EXCEPT !.announce = "game_over",
                           !.r_elim = p, !.r_ended = TRUE, !.r_next = None]
                 ELSE [g1 EXCEPT !.r_elim = p, !.r_ended = FALSE, !.r_next = nxt]
    ELSE [g EXCEPT !.r_elim = None, !.r_ended = FALSE, !.r_next = None]

\* a variant in which the revealed card stays in the hand
handle_card_swap_keeps(g, p, card_name) == g

handle_card_swap(g, p, card_name) ==
    IF g.err THEN g
    ELSE IF Len(g.court_deck) < 1 THEN g
    ELSE IF ~InRoster(g, p) THEN Raise(g)
    ELSE IF card_name \in Range(g.cards[p])
    THEN LET d1 == <<card_name>> \o g.court_deck
         IN [g EXCEPT !.cards[p] = Append(RemoveFirst(@, card_name), Last(d1)),
                      !.court_deck = Front(d1)]
    ELSE g

\* The loser of a challenge loses a card and may be eliminated.
LoseAndEliminate(g, legit, loser, d) ==
    IF g.err THEN g
    ELSE IF ~InRoster(g, loser) THEN Raise(g)
    ELSE IF Len(g.cards[loser]) > 0
    THEN [handle_player_elimination(lose_influence_with_reveal(g, loser), loser, d)
             EXCEPT !.r_legit = legit]
    ELSE [g EXCEPT !.r_legit = legit, !.r_ended = FALSE, !.r_elim = None,
                   !.r_next = None]

handle_challenge(g, claimer, challenger, required_card, d) ==
    IF g.err THEN g
    ELSE IF ~InRoster(g, claimer) THEN Raise(g)
    ELSE IF required_card \in Range(g.cards[claimer])
    THEN LoseAndEliminate(handle_card_swap(g, claimer, required_card),
                          TRUE, challenger, d)
    ELSE LoseAndEliminate(g, FALSE, claimer, d)

\* a variant that looks for the first card of valid_cards only
handle_block_challenge_first(g, blocker, challenger, valid_cards, d) ==
    handle_challenge(g, blocker, challenger, valid_cards[1], d)

\* valid_cards is a list: the first of its cards the blocker holds is revealed
handle_block_challenge(g, blocker, challenger, valid_cards, d) ==
    IF g.err THEN g
    ELSE IF ~InRoster(g, blocker) THEN Raise(g)
    ELSE IF \E i \in 1..Len(valid_cards) : valid_cards[i] \in Range(g.cards[blocker])
    THEN LET i == CHOOSE i \in 1..Len(valid_cards) :
                      /\ valid_cards[i] \in Range(g.cards[blocker])
                      /\ \A j \in 1..(i - 1) : valid_cards[j] \notin Range(g.cards[blocker])
         IN LoseAndEliminate(handle_card_swap(g, blocker, valid_cards[i]),
                             TRUE, challenger, d)
    ELSE LoseAndEliminate(g, FALSE, blocker, d)

check_forced_coup(g, p) ==
    IF g.err THEN g
    ELSE IF ~InRoster(g, p) THEN Raise(g)
    ELSE IF g.coins[p] >= ForcedCoupCoins THEN Say(g, "forced_coup")
    ELSE Say(g, "turn")

RECURSIVE advance_turn(_, _)
advance_turn(g, current_turn_player) ==
    IF g.err THEN g
    ELSE IF ~InRoster(g, current_turn_player) /\ Len(g.players) = 0 THEN g
    ELSE IF InRoster(g, current_turn_player) /\ ~CanNext(g, current_turn_player)
    THEN Hang(g)
    ELSE LET g1 == [g EXCEPT !.current_player =
                        IF ~InRoster(g, current_turn_player) THEN g.players[1]
                        ELSE get_next_player(g, current_turn_player)]
             cp == g1.current_player
         IN IF cp \notin members
            THEN LET g2 == DelPlayer(g1, cp)
                 IN IF check_win_condition(g2) # None
                    THEN [g2 EXCEPT !.game_started = FALSE,
                                    !.players = <<>>,
                                    !.cards = [u \in Users |-> <<>>],
                                    !.coins = [u \in Users |-> 0],
                                    !.current_player = None,
                                    !.announce = "game_over"]
                    ELSE advance_turn(g2, cp)
            ELSE check_forced_coup(g1, cp)

(***************************************************************************)
(* Validation of a command.                                                 *)
(***************************************************************************)
validate_turn(g, player) == player = g.current_player

\* a variant that lets every target through
validate_target_any(g, target) == "ok"

validate_target(g, target) ==
    IF ~InRoster(g, target) THEN "not_in_game"
    ELSE IF ~is_player_alive(g, target) THEN "target_eliminated"
    ELSE "ok"

\* a variant that lets every balance through
validate_coins_any(g, player, required_coins) == TRUE

validate_coins(g, player, required_coins) == g.coins[player] >= required_coins

\* a variant without the forced-coup rule
validate_action_allowed_off(g, player, action_name) == TRUE

validate_action_allowed(g, player, action_name) ==
    ~(g.coins[player] >= ForcedCoupCoins /\ action_name # "coup")

validate_self_target(player, target) == player # target

Targeted == {"coup", "assassinate", "steal"}
Untargeted == {"income", "foreign_aid", "tax", "exchange"}
ActionKinds == Targeted \cup Untargeted

\* The checks of a handler, in the handler's order; "ok" when the command
\* is accepted.  The Member converter rejects a target that is not in the
\* server before the handler runs; a check that reads the entry of a player
\* who is not in the roster raises.
Validate(g, kind, author, target) ==
    IF kind \in Targeted /\ target \notin members THEN "member_not_found"
    ELSE IF ~validate_turn(g, author) THEN "not_your_turn"
    ELSE IF kind \in Untargeted
    THEN IF ~InRoster(g, author) THEN "command_error"
         ELSE IF ~validate_action_allowed(g, author, kind) THEN "must_coup"
         ELSE "ok"
    ELSE IF validate_target(g, target) # "ok" THEN validate_target(g, target)
    ELSE IF ~validate_self_target(author, target) THEN "self_target"
    ELSE IF ~InRoster(g, author) THEN "command_error"
    ELSE IF kind = "coup"
    THEN IF ~validate_coins(g, author, CoupCost) THEN "insufficient_coins"
         ELSE "ok"
    ELSE IF kind = "assassinate"
    THEN IF ~validate_coins(g, author, AssassinateCost) THEN "insufficient_coins"
         ELSE IF ~validate_action_allowed(g, author, kind) THEN "must_coup"
         ELSE "ok"
    ELSE IF ~validate_action_allowed(g, author, kind) THEN "must_coup"
    ELSE IF g.coins[target] < 1 THEN "no_coins_to_steal"
    ELSE "ok"

(***************************************************************************)
(* The handlers, cut at their suspension points.                            *)
(***************************************************************************)
AddCoins(g, p, n) ==
    IF g.err THEN g
    ELSE IF ~InRoster(g, p) THEN Raise(g)
    ELSE [g EXCEPT !.coins[p] = @ + n]

Min(a, b) == IF a < b THEN a ELSE b

\* the transfer of a steal that goes ahead
StealCoins(g, author, target) ==
    IF g.err THEN g
    ELSE IF InRoster(g, target) /\ Len(g.cards[target]) > 0
    THEN IF ~InRoster(g, author) THEN Raise(g)
         ELSE LET stolen_coins == Min(2, g.coins[target])
              IN [g EXCEPT !.coins[author] = @ + stolen_coins,
                           !.coins[target] = @ - stolen_coins]
    ELSE g

\* a variant that spares the target
LoseTargetThenAdvance_spares(g, author, target, d) == advance_turn(g, author)

\* the influence loss of a coup or an assassination that goes ahead; the
\* handler returns when the game ended, else it advances the turn
LoseTargetThenAdvance(g, author, target, d) ==
    IF g.err THEN g
    ELSE IF InRoster(g, target) /\ Len(g.cards[target]) > 0
    THEN LET g1 == handle_player_elimination(
                       lose_influence_with_reveal(g, target), target, d)
         IN IF g1.err \/ g1.r_ended THEN g1 ELSE advance_turn(g1, author)
    ELSE advance_turn(g, author)

\* "the current player was eliminated, advance to the calculated next player"
TurnOrder(g, msg) ==
    IF g.err THEN g
    ELSE IF g.r_next = None THEN Raise(g)
    ELSE [g EXCEPT !.current_player = g.r_next, !.announce = msg]

\* a variant that leaves the turn where it is
AfterBluff_stays(g, author, msg) == g

\* after the actor's claim was challenged and found a bluff
AfterBluff(g, author, msg) ==
    IF g.err \/ g.r_ended THEN g
    ELSE IF g.r_elim = author THEN TurnOrder(g, msg)
    ELSE advance_turn(g, author)

Suspend(g, c) == IF g.err THEN g ELSE [g EXCEPT !.c = c]

\* a variant that pays two coins
income_two(g, author) == advance_turn(AddCoins(g, author, 2), author)

income(g, author) == advance_turn(AddCoins(g, author, 1), author)

\* a variant that charges nothing
coup_free(g, author, target, d) ==
    IF ~InRoster(g, target) THEN Raise(g)
    ELSE LoseTargetThenAdvance(g, author, target, d)

coup(g, author, target, d) ==
    LET g1 == AddCoins(g, author, 0 - CoupCost)
    IN IF ~InRoster(g1, target) THEN Raise(g1)
       ELSE LoseTargetThenAdvance(g1, author, target, d)

\* The first part of a handler whose checks passed, up to its first wait.
FirstPart(g, kind, author, target, d) ==
    LET c == [CmdIdle EXCEPT !.kind = kind, !.author = author,
                             !.target = target, !.pc = "w1"]
    IN CASE kind = "income" -> income(g, author)
         [] kind = "coup" -> coup(g, author, target, d)
         [] kind = "assassinate" ->
                Suspend(AddCoins(g, author, 0 - AssassinateCost), c)
         [] kind = "exchange" ->
                Suspend(g, [c EXCEPT !.icc = Len(g.cards[author])])
         [] OTHER -> Suspend(g, c)

(***************************************************************************)
(* What a response window returns to the handler.                           *)
(***************************************************************************)
\* a variant that lets the initiator react
Eligible_initiator(g, user, action_initiator) ==
    /\ InRoster(g, user)
    /\ is_player_alive(g, user)

\* the conditions on the reacting user that check_existing_reactions and
\* check_new_reaction share
Eligible(g, user, action_initiator) ==
    /\ InRoster(g, user)
    /\ is_player_alive(g, user)
    /\ user # action_initiator

\* (emoji, user) or (None, None)
WindowResults(g, valid_emojis, action_initiator) ==
    {<<None, None>>} \cup
    {<<e, u>> : e \in Range(valid_emojis),
                u \in {x \in Users : Eligible(g, x, action_initiator)}}

ValidEmojis(c) ==
    IF c.pc = "w2" THEN <<Challenge>>
    ELSE CASE c.kind = "foreign_aid" -> <<Block>>
           [] c.kind = "assassinate" -> <<Challenge, Block>>
           [] c.kind = "steal" -> <<Block, Challenge>>
           [] OTHER -> <<Challenge>>

Initiator(c) == IF c.pc = "w2" THEN c.reactor ELSE c.author

ToBlockWindow(g, c, blocker) == Suspend(g, [c EXCEPT !.pc = "w2", !.reactor = blocker])

foreign_aid_w1(g, c, emoji, blocker) ==
    IF emoji = Block THEN ToBlockWindow(g, c, blocker)
    ELSE advance_turn(AddCoins(g, c.author, 2), c.author)

\* a variant in which an exposed block still cancels the foreign aid
foreign_aid_w2_cancels(g, c, emoji, challenger, d) ==
    IF emoji = Challenge
    THEN LET g1 == handle_challenge(g, c.reactor, challenger, "Duke", d)
         IN IF g1.err \/ g1.r_ended THEN g1 ELSE advance_turn(g1, c.author)
    ELSE advance_turn(g, c.author)

foreign_aid_w2(g, c, emoji, challenger, d) ==
    IF emoji = Challenge
    THEN LET g1 == handle_challenge(g, c.reactor, challenger, "Duke", d)
         IN IF g1.err \/ g1.r_ended THEN g1
            ELSE IF g1.r_legit THEN advance_turn(g1, c.author)
            ELSE advance_turn(AddCoins(g1, c.author, 2), c.author)
    ELSE advance_turn(g, c.author)

tax_w1(g, c, emoji, challenger, d) ==
    IF emoji = Challenge
    THEN LET g1 == handle_challenge(g, c.author, challenger, "Duke", d)
         IN IF g1.err \/ g1.r_ended THEN g1
            ELSE IF g1.r_legit THEN advance_turn(AddCoins(g1, c.author, 3), c.author)
            ELSE AfterBluff(g1, c.author, "turn_order")
    ELSE advance_turn(AddCoins(g, c.author, 3), c.author)

assassinate_w1(g, c, emoji, reactor, d) ==
    IF emoji = Challenge
    THEN LET g1 == handle_challenge(g, c.author, reactor, "Assassin", d)
         IN IF g1.err \/ g1.r_ended THEN g1
            ELSE IF g1.r_legit
            THEN LoseTargetThenAdvance(g1, c.author, c.target, d)
            ELSE AfterBluff(g1, c.author, "turn_order")
    ELSE IF emoji = Block THEN ToBlockWindow(g, c, reactor)
    ELSE LoseTargetThenAdvance(g, c.author, c.target, d)

\* a variant that returns the price of a blocked assassination
assassinate_w2_refunds(g, c, emoji, challenger, d) ==
    advance_turn(AddCoins(g, c.author, AssassinateCost), c.author)

assassinate_w2(g, c, emoji, challenger, d) ==
    IF emoji = Challenge
    THEN LET g1 == handle_challenge(g, c.reactor, challenger, "Contessa", d)
         IN IF g1.err \/ g1.r_ended THEN g1
            ELSE IF g1.r_legit THEN advance_turn(g1, c.author)
            ELSE LoseTargetThenAdvance(g1, c.author, c.target, d)
    ELSE advance_turn(g, c.author)

steal_w1(g, c, emoji, reactor, d) ==
    IF emoji = Block THEN ToBlockWindow(g, c, reactor)
    ELSE IF emoji = Challenge
    THEN LET g1 == handle_challenge(g, c.author, reactor, "Captain", d)
         IN IF g1.err \/ g1.r_ended THEN g1
            ELSE IF g1.r_legit
            THEN advance_turn(StealCoins(g1, c.author, c.target), c.author)
            ELSE AfterBluff(g1, c.author, "turn")
    ELSE advance_turn(StealCoins(g, c.author, c.target), c.author)

steal_w2(g, c, emoji, challenger, d) ==
    IF emoji = Challenge
    THEN LET g1 == handle_block_challenge(g, c.reactor, challenger,
                                          <<"Captain", "Ambassador">>, d)
         IN IF g1.err \/ g1.r_ended THEN g1
            ELSE IF g1.r_legit THEN advance_turn(g1, c.author)
            ELSE advance_turn(StealCoins(g1, c.author, c.target), c.author)
    ELSE advance_turn(g, c.author)

\* "Exchange proceeds": the draw of two cards and the DMs with the options
exchange_draw(g, c, dm_success) ==
    IF g.err THEN g
    ELSE IF Len(g.court_deck) < 2 THEN advance_turn(Say(g, "deck_error"), c.author)
    ELSE LET n == Len(g.court_deck)
             new_cards == <<g.court_deck[n], g.court_deck[n - 1]>>
             g1 == [g EXCEPT !.court_deck = SubSeq(g.court_deck, 1, n - 2)]
         IN IF ~InRoster(g1, c.author) THEN Raise(g1)
            ELSE IF ~dm_success
            THEN advance_turn([g1 EXCEPT !.court_deck = @ \o new_cards], c.author)
            ELSE Suspend(g1, [c EXCEPT !.pc = "select",
                                       !.all_cards = g1.cards[c.author] \o new_cards])

exchange_w1(g, c, emoji, challenger, d, dm_success) ==
    IF emoji = Challenge
    THEN LET g1 == handle_challenge(g, c.author, challenger, "Ambassador", d)
         IN IF g1.err \/ g1.r_ended THEN g1
            ELSE IF g1.r_legit THEN exchange_draw(g1, c, dm_success)
            ELSE AfterBluff(g1, c.author, "turn_order")
    ELSE exchange_draw(g, c, dm_success)

\* The selection: perm is the shuffle of all_cards followed by the player's
\* choice.  The first icc cards of it are kept, in the order chosen; the others
\* return to the deck.  The wait accepts each of the ChoiceEmojis number emojis
\* from the author: stray says that the author reacts, before the choice is
\* complete, with a number beyond the pool, and all_cards_with_ids[card_index]
\* raises.
exchange_select(g, c, perm, stray) ==
    LET pool == [i \in 1..Len(c.all_cards) |-> c.all_cards[perm[i]]]
        chosen_cards == SubSeq(pool, 1, c.icc)
        unchosen_cards == SubSeq(pool, c.icc + 1, Len(pool))
    IN IF stray /\ Len(c.all_cards) < ChoiceEmojis THEN Raise(g)
       ELSE IF ~InRoster(g, c.author) THEN Raise(g)
       ELSE advance_turn([g EXCEPT !.cards[c.author] = chosen_cards,
                                   !.court_deck = @ \o unchosen_cards], c.author)

Resolve(g, c, emoji, user, d, dm_success) ==
    CASE c.kind = "foreign_aid" /\ c.pc = "w1" -> foreign_aid_w1(g, c, emoji, user)
      [] c.kind = "foreign_aid" /\ c.pc = "w2" -> foreign_aid_w2(g, c, emoji, user, d)
      [] c.kind = "tax" -> tax_w1(g, c, emoji, user, d)
      [] c.kind = "assassinate" /\ c.pc = "w1" -> assassinate_w1(g, c, emoji, user, d)
      [] c.kind = "assassinate" /\ c.pc = "w2" -> assassinate_w2(g, c, emoji, user, d)
      [] c.kind = "steal" /\ c.pc = "w1" -> steal_w1(g, c, emoji, user, d)
      [] c.kind = "steal" /\ c.pc = "w2" -> steal_w2(g, c, emoji, user, d)
      [] c.kind = "exchange" -> exchange_w1(g, c, emoji, user, d, dm_success)

(***************************************************************************)
(* start and end.                                                           *)
(***************************************************************************)
UserList == <<"u1", "u2", "u3">>
\* the order in which a set of users is iterated
SetOrder(S) == SelectSeq(UserList, LAMBDA u : u \in S)

\* the reset at the top of start
start_reset(g, d) ==
    [g EXCEPT !.players = <<>>,
              !.cards = [u \in Users |-> <<>>],
              !.coins = [u \in Users |-> 0],
              !.court_deck = d,
              !.discarded_cards = <<>>]

DealOk(g) == Len(g.court_deck) >= Len(g.players) * 2

\* each player, in roster order, gets [pop(), pop()]
deal_cards(g) ==
    LET n == Len(g.court_deck)
        k == Len(g.players)
        pos(p) == IndexOf(g.players, p)
    IN [g EXCEPT !.cards = [u \in Users |->
                     IF InRoster(g, u)
                     THEN <<g.court_deck[n - 2 * (pos(u) - 1)],
                            g.court_deck[n - 2 * (pos(u) - 1) - 1]>>
                     ELSE g.cards[u]],
                 !.court_deck = SubSeq(g.court_deck, 1, n - 2 * k)]

\* random.shuffle(player_list): the orders the model explores
shuffle_players(S) ==
    IF S = {} THEN {<<>>}
    ELSE {Rotate(SetOrder(S), k % Cardinality(S)) : k \in 0..(NumShuffles - 1)}

\* start after the join countdown: the reactors join, the hands are dealt and
\* the turn order is shuffled to player_list
start_join(g, c, reactors, player_list) ==
    LET g1 == [g EXCEPT !.players = @ \o SetOrder(reactors \ Range(g.players)),
                        !.cards = [u \in Users |-> IF u \in reactors THEN <<>> ELSE @[u]],
                        !.coins = [u \in Users |-> IF u \in reactors THEN StartCoins ELSE @[u]]]
    IN IF Len(g1.players) < MinPlayers THEN Say(g1, "not_enough_players")
       ELSE IF ~DealOk(g1) THEN Say(g1, "deck_error")
       ELSE Suspend([deal_cards(g1) EXCEPT !.game_started = TRUE,
                                           !.players = player_list,
                                           !.current_player = player_list[1]],
                    [c EXCEPT !.pc = "dm", !.plist = player_list])

RECURSIVE DelAll(_, _)
DelAll(g, S) == IF S = {} THEN g
                ELSE LET p == CHOOSE q \in S : TRUE
                     IN DelAll(IF InRoster(g, p) THEN DelPlayer(g, p) ELSE g, S \ {p})

\* start after the hands were sent: failed_players could not be sent theirs
start_dms(g, failed_players) ==
    LET g1 == DelAll(g, failed_players)
    IN IF Len(g1.players) < MinPlayers
       THEN [g1 EXCEPT !.game_started = FALSE, !.announce = "not_enough_players"]
       ELSE check_forced_coup(g1, g1.current_player)

\* a variant of end that only clears the flag
end_flag_only(g, d) == Say([g EXCEPT !.game_started = FALSE], "game_ended")

end(g, d) == Say(ResetTable(g, d), "game_ended")

\* the checks at the top of start and of end
start_check(g) == IF g.game_started THEN "game_in_progress" ELSE "ok"
end_check(g) == IF ~g.game_started THEN "no_game" ELSE "ok"

(***************************************************************************)
(* The table: its initial state and its steps.                              *)
(***************************************************************************)
NoReply == [kind |-> "none", author |-> None, target |-> None, reason |-> "none"]

\* The last step of an action handler: the command, the window it was in (pc),
\* what the window returned (emoji, user) and what the challenge it resolved
\* returned (claim_legitimate, game_ended); reactor is the blocker of a
\* block's window.
NoLast == [op |-> "none", kind |-> "none", author |-> None, target |-> None,
           pc |-> "idle", reactor |-> None, emoji |-> None, user |-> None,
           legit |-> FALSE, ended |-> FALSE]

WindowIdle ==
    /\ w_pc = "idle"
    /\ w_i = 0
    /\ w_valid = <<>>
    /\ w_init = None
    /\ w_reactions = <<>>
    /\ w_event = <<>>
    /\ w_processed = {}
    /\ w_result = <<>>

Init ==
    /\ players = <<>>
    /\ cards = [u \in Users |-> <<>>]
    /\ coins = [u \in Users |-> 0]
    /\ court_deck \in shuffle_deck
    /\ discarded_cards = <<>>
    /\ game_started = FALSE
    /\ current_player = None
    /\ members = Users
    /\ cmds = [s \in Slots |-> CmdIdle]
    /\ announce = "none"
    /\ reply = NoReply
    /\ ncmds = 0
    /\ last = NoLast
    /\ WindowIdle

FreeSlots == {s \in Slots : cmds[s] = CmdIdle}
FreeSlot == CHOOSE s \in FreeSlots : \A t \in FreeSlots : s <= t

\* the event loop of the bot runs: no handler is caught in a loop
Running == announce # "no_return"

\* the slot a handler leaves: taken again when the handler waits once more
After(s, g) == /\ Commit(g)
               /\ cmds' = [cmds EXCEPT ![s] = g.c]

Rest == /\ UNCHANGED wvars
        /\ UNCHANGED reply

\* start passes its check and opens the join lobby.
StartCmd(d) ==
    /\ Running
    /\ FreeSlots # {}
    /\ ~game_started
    /\ After(FreeSlot, Suspend(start_reset(GS, d),
                               [CmdIdle EXCEPT !.kind = "start", !.pc = "lobby"]))
    /\ ncmds' = ncmds + 1
    /\ UNCHANGED members
    /\ last' = NoLast
    /\ Rest

\* A user issues !start.
Start(d) ==
    /\ ncmds < MaxCmds
    /\ StartCmd(d)

\* The join countdown of a start ends.
StartJoin(s, reactors, player_list) ==
    /\ Running
    /\ cmds[s].pc = "lobby"
    /\ player_list \in shuffle_players(Range(players) \cup reactors)
    /\ After(s, start_join(GS, cmds[s], reactors, player_list))
    /\ UNCHANGED <<members, ncmds>>
    /\ last' = NoLast
    /\ Rest

\* A start has tried to send every player of its list their hand.
StartDMs(s, failed_players) ==
    /\ Running
    /\ cmds[s].pc = "dm"
    /\ failed_players \subseteq Range(cmds[s].plist)
    /\ After(s, start_dms(GS, failed_players))
    /\ UNCHANGED <<members, ncmds>>
    /\ last' = NoLast
    /\ Rest

\* end passes its check and resets the table.
EndCmd(d) ==
    /\ Running
    /\ game_started
    /\ Commit(end(GS, d))
    /\ ncmds' = ncmds + 1
    /\ UNCHANGED <<members, cmds>>
    /\ last' = NoLast
    /\ Rest

\* A user issues !end.
End(d) ==
    /\ ncmds < MaxCmds
    /\ EndCmd(d)

\* An action command passes the checks of its handler and runs to its first
\* wait or to its end.
Issue(kind, author, target, d) ==
    /\ Running
    /\ author \in members
    /\ kind \in Targeted \/ target = None
    /\ Validate(GS, kind, author, target) = "ok"
    /\ LET g == FirstPart(GS, kind, author, target, d)
       IN IF g.c = CmdIdle
          THEN Commit(g) /\ UNCHANGED cmds
          ELSE FreeSlots # {} /\ After(FreeSlot, g)
    /\ ncmds' = ncmds + 1
    /\ UNCHANGED members
    /\ last' = [NoLast EXCEPT !.op = "accept", !.kind = kind, !.author = author,
                              !.target = target]
    /\ Rest

\* A user issues an action command that passes the checks of its handler.
Accept(kind, author, target, d) ==
    /\ ncmds < MaxCmds
    /\ Issue(kind, author, target, d)

\* A response window of a command returns (emoji, user) or (None, None).
Window(s, emoji, user, d, dm_success) ==
    /\ Running
    /\ cmds[s].pc \in {"w1", "w2"}
    /\ <<emoji, user>> \in WindowResults(GS, ValidEmojis(cmds[s]), Initiator(cmds[s]))
    /\ dm_success \/ cmds[s].kind = "exchange"
    /\ After(s, Resolve(GS, cmds[s], emoji, user, d, dm_success))
    /\ UNCHANGED <<members, ncmds>>
    /\ last' = [op |-> "window", kind |-> cmds[s].kind, author |-> cmds[s].author,
                target |-> cmds[s].target, pc |-> cmds[s].pc,
                reactor |-> cmds[s].reactor, emoji |-> emoji, user |-> user,
                legit |-> Resolve(GS, cmds[s], emoji, user, d, dm_success).r_legit,
                ended |-> Resolve(GS, cmds[s], emoji, user, d, dm_success).r_ended]
    /\ Rest

\* The player of an exchange has chosen the cards to keep.
Select(s, perm, stray) ==
    /\ Running
    /\ cmds[s].pc = "select"
    /\ perm \in Perms(1..Len(cmds[s].all_cards))
    /\ stray => Len(cmds[s].all_cards) < ChoiceEmojis
    /\ After(s, exchange_select(GS, cmds[s], perm, stray))
    /\ UNCHANGED <<members, ncmds>>
    /\ last' = [NoLast EXCEPT !.op = "select", !.kind = cmds[s].kind,
                              !.author = cmds[s].author, !.pc = cmds[s].pc,
                              !.emoji = IF stray THEN "stray" ELSE "chosen"]
    /\ Rest

\* A user leaves the server during a game.
Leave(u) ==
    /\ Running
    /\ game_started
    /\ u \in members
    /\ Cardinality(Users \ members) < MaxLeaves
    /\ members' = members \ {u}
    /\ announce' = "none"
    /\ UNCHANGED <<gvars, cmds, ncmds>>
    /\ last' = NoLast
    /\ Rest

Next ==
    \/ \E d \in shuffle_deck : Start(d)
    \/ \E s \in Slots, reactors \in SUBSET Users :
           \E player_list \in shuffle_players(Range(players) \cup reactors) :
               StartJoin(s, reactors, player_list)
    \/ \E s \in Slots : \E failed_players \in SUBSET Range(cmds[s].plist) :
           StartDMs(s, failed_players)
    \/ \E d \in shuffle_deck : End(d)
    \/ \E kind \in ActionKinds, author \in Users, target \in Users \cup {None},
          d \in shuffle_deck : Accept(kind, author, target, d)
    \/ \E s \in Slots, emoji \in {Challenge, Block, None}, user \in Users \cup {None},
          d \in shuffle_deck, dm_success \in BOOLEAN :
           Window(s, emoji, user, d, dm_success)
    \/ \E s \in Slots, stray \in BOOLEAN :
           \E perm \in Perms(1..Len(cmds[s].all_cards)) : Select(s, perm, stray)
    \/ \E u \in Users : Leave(u)

Spec == Init /\ [][Next]_vars

Idle == \A s \in Slots : cmds[s] = CmdIdle

(***************************************************************************)
(* One turn.  The initial states are states of a running game between two   *)
(* commands: the hands as start deals them, at most one player with one     *)
(* card lost to the discard pile, and coin balances that earlier turns can  *)
(* have left.  One command is issued: it is rejected, or it is accepted and *)
(* runs to its end.                                                         *)
(***************************************************************************)
TurnRosters == {<<"u1", "u2">>, <<"u1", "u2", "u3">>}
ActorCoins == {2, 3, 7, 10, 11}
OtherCoins == {0, 1, 3}

InitGame(g) ==
    /\ players = g.players
    /\ cards = g.cards
    /\ coins = g.coins
    /\ court_deck = g.court_deck
    /\ discarded_cards = g.discarded_cards
    /\ game_started = g.game_started
    /\ current_player = g.current_player

InitRest ==
    /\ members = Users
    /\ cmds = [s \in Slots |-> CmdIdle]
    /\ announce = "none"
    /\ reply = NoReply
    /\ ncmds = 0
    /\ last = NoLast
    /\ WindowIdle

Blank == [players |-> <<>>, cards |-> [u \in Users |-> <<>>],
          coins |-> [u \in Users |-> 0], court_deck |-> FreshDeck,
          discarded_cards |-> <<>>, game_started |-> FALSE,
          current_player |-> None, announce |-> "none", err |-> FALSE,
          hang |-> FALSE, r_legit |-> FALSE, r_ended |-> FALSE, r_elim |-> None,
          r_next |-> None, c |-> CmdIdle]

MidGame(roster, d, a, o, lost) ==
    LET coin == [u \in Users |-> IF u = roster[1] THEN a
                                 ELSE IF u \in Range(roster) THEN o ELSE 0]
        g0 == [Blank EXCEPT !.players = roster, !.court_deck = d]
        g1 == [deal_cards(g0) EXCEPT !.game_started = TRUE,
                                     !.current_player = roster[1],
                                     !.coins = coin]
    IN IF lost = None THEN g1 ELSE lose_influence_with_reveal(g1, lost)

\* a running game, or the table before any game
InitTurn ==
    /\ \/ \E roster \in TurnRosters, d \in shuffle_deck, a \in ActorCoins,
             o \in OtherCoins, lost \in Users \cup {None} :
              /\ lost \in Range(roster) \cup {None}
              /\ InitGame(MidGame(roster, d, a, o, lost))
       \/ \E d \in shuffle_deck : InitGame([Blank EXCEPT !.court_deck = d])
    /\ InitRest

Reason(kind, author, target) == Validate(GS, kind, author, target)

\* A user issues an action command that fails a check of its handler.
Reject(kind, author, target) ==
    /\ Running
    /\ ncmds = 0
    /\ author \in members
    /\ kind \in Targeted \/ target = None
    /\ Reason(kind, author, target) # "ok"
    /\ reply' = [kind |-> kind, author |-> author, target |-> target,
                 reason |-> Reason(kind, author, target)]
    /\ announce' = "rejected"
    /\ UNCHANGED <<gvars, members, cmds, ncmds, last>>
    /\ UNCHANGED wvars

\* The command of the turn is accepted.
AcceptTurn(kind, author, target, d) ==
    /\ ncmds = 0
    /\ reply = NoReply
    /\ Accept(kind, author, target, d)

NextTurn ==
    \/ \E kind \in ActionKinds, author \in Users, target \in Users \cup {None} :
           Reject(kind, author, target)
    \/ \E kind \in ActionKinds, author \in Users, target \in Users \cup {None},
          d \in shuffle_deck : AcceptTurn(kind, author, target, d)
    \/ \E s \in Slots, emoji \in {Challenge, Block, None}, user \in Users \cup {None},
          d \in shuffle_deck, dm_success \in BOOLEAN :
           Window(s, emoji, user, d, dm_success)
    \/ \E s \in Slots, stray \in BOOLEAN :
           \E perm \in Perms(1..Len(cmds[s].all_cards)) : Select(s, perm, stray)

SpecTurn == InitTurn /\ [][NextTurn]_vars

(***************************************************************************)
(* Overlapping commands.  From a running game a command is issued, and      *)
(* further commands are issued while commands are in flight: the handlers   *)
(* check only that the author is current_player.                            *)
(***************************************************************************)
RaceRosters == {<<"u1", "u2">>, <<"u1", "u2", "u3">>}
RaceCoins == {3, 7}

InitRace ==
    /\ \E roster \in RaceRosters, d \in shuffle_deck, a \in RaceCoins :
           InitGame(MidGame(roster, d, a, StartCoins, None))
    /\ InitRest

AcceptRace(kind, author, target, d) ==
    /\ ncmds = 0 \/ ~Idle
    /\ Accept(kind, author, target, d)

NextRace ==
    \/ \E kind \in ActionKinds, author \in Users, target \in Users \cup {None},
          d \in shuffle_deck : AcceptRace(kind, author, target, d)
    \/ \E s \in Slots, emoji \in {Challenge, Block, None}, user \in Users \cup {None},
          d \in shuffle_deck, dm_success \in BOOLEAN :
           Window(s, emoji, user, d, dm_success)
    \/ \E s \in Slots, stray \in BOOLEAN :
           \E perm \in Perms(1..Len(cmds[s].all_cards)) : Select(s, perm, stray)

SpecRace == InitRace /\ [][NextRace]_vars

(***************************************************************************)
(* The turn order.  A running game of three players in which the turn is    *)
(* the second or the third player's; one command is issued, and a member    *)
(* may leave the server before it or while it runs.                         *)
(***************************************************************************)
OrderRoster == <<"u1", "u2", "u3">>
OrderCoins == {3, 7}

InitOrder ==
    /\ \E d \in shuffle_deck, a \in OrderCoins, lost \in Users \cup {None},
          cur \in 2..Len(OrderRoster) :
           InitGame([MidGame(OrderRoster, d, StartCoins, StartCoins, lost)
                        EXCEPT !.current_player = OrderRoster[cur],
                               !.coins[OrderRoster[cur]] = a])
    /\ InitRest

NextOrder ==
    \/ \E kind \in ActionKinds, author \in Users, target \in Users \cup {None} :
           Reject(kind, author, target)
    \/ \E kind \in ActionKinds, author \in Users, target \in Users \cup {None},
          d \in shuffle_deck : AcceptTurn(kind, author, target, d)
    \/ \E s \in Slots, emoji \in {Challenge, Block, None}, user \in Users \cup {None},
          d \in shuffle_deck, dm_success \in BOOLEAN :
           Window(s, emoji, user, d, dm_success)
    \/ \E s \in Slots, stray \in BOOLEAN :
           \E perm \in Perms(1..Len(cmds[s].all_cards)) : Select(s, perm, stray)
    \/ \E u \in Users : Leave(u)

SpecOrder == InitOrder /\ [][NextOrder]_vars

(***************************************************************************)
(* Time alone.  One turn of a running game in which time passes: a response *)
(* window that stays open closes.  The reactions and the choices of the     *)
(* players are inputs, and nothing says that they are ever made.            *)
(***************************************************************************)
LiveCoins == {3, 7}

InitLive ==
    /\ \E d \in shuffle_deck, a \in LiveCoins :
           InitGame(MidGame(OrderRoster, d, a, StartCoins, None))
    /\ InitRest

\* The budget of a response window expires with no reaction accepted:
\* wait_for_reaction returns (None, None).
TimePasses ==
    \E s \in Slots, d \in shuffle_deck, dm_success \in BOOLEAN :
        Window(s, None, None, d, dm_success)

SpecLive == InitLive /\ [][NextTurn]_vars /\ WF_vars(TimePasses)

(***************************************************************************)
(* A reset under a command.  On a running game an action command is issued; *)
(* while it runs or after it, the game is ended and a new game is started.  *)
(* The command of the old game resumes whenever its wait ends.              *)
(***************************************************************************)
ResetRosters == {<<"u1", "u2">>, <<"u1", "u2", "u3">>}
ResetCoins == {3, 7}

InitReset ==
    /\ \E roster \in ResetRosters, a \in ResetCoins :
           InitGame(MidGame(roster, FreshDeck, a, StartCoins, None))
    /\ InitRest

AcceptReset(kind, author, target, d) ==
    /\ ncmds = 0
    /\ Issue(kind, author, target, d)

EndReset(d) ==
    /\ ncmds = 1
    /\ EndCmd(d)

StartReset(d) ==
    /\ ncmds = 2
    /\ StartCmd(d)

\* A user issues !start or !end and the check at its top fails.
RejectLifecycle(kind) ==
    /\ Running
    /\ \/ kind = "start" /\ start_check(GS) # "ok"
       \/ kind = "end" /\ end_check(GS) # "ok"
    /\ reply' = [kind |-> kind, author |-> None, target |-> None,
                 reason |-> IF kind = "start" THEN start_check(GS) ELSE end_check(GS)]
    /\ announce' = "rejected"
    /\ UNCHANGED <<gvars, members, cmds, ncmds, last>>
    /\ UNCHANGED wvars

NextReset ==
    \/ \E kind \in ActionKinds, author \in Users, target \in Users \cup {None},
          d \in shuffle_deck : AcceptReset(kind, author, target, d)
    \/ \E d \in shuffle_deck : EndReset(d)
    \/ \E d \in shuffle_deck : StartReset(d)
    \/ \E kind \in {"start", "end"} : RejectLifecycle(kind)
    \/ \E s \in Slots, reactors \in SUBSET Users :
           \E player_list \in shuffle_players(Range(players) \cup reactors) :
               StartJoin(s, reactors, player_list)
    \/ \E s \in Slots : \E failed_players \in SUBSET Range(cmds[s].plist) :
           StartDMs(s, failed_players)
    \/ \E s \in Slots, emoji \in {Challenge, Block, None}, user \in Users \cup {None},
          d \in shuffle_deck, dm_success \in BOOLEAN :
           Window(s, emoji, user, d, dm_success)
    \/ \E s \in Slots, stray \in BOOLEAN :
           \E perm \in Perms(1..Len(cmds[s].all_cards)) : Select(s, perm, stray)

SpecReset == InitReset /\ [][NextReset]_vars

(***************************************************************************)
(* After an aborted start.  The table is as a start left it that ended with *)
(* game_started false: too few players joined, or too few could be sent     *)
(* their hand.  From there the commands of Spec are issued.                 *)
(***************************************************************************)
AgainUsers == {"u1", "u2"}

InitAgain ==
    /\ \E reactors \in SUBSET AgainUsers :
         \E player_list \in shuffle_players(reactors), failed_players \in SUBSET reactors :
            LET g0 == start_reset(Blank, FreshDeck)
                g1 == start_join(g0, CmdIdle, reactors, player_list)
                g2 == IF g1.c = CmdIdle THEN g1 ELSE start_dms(g1, failed_players)
            IN /\ ~g2.game_started
               /\ InitGame(g2)
    /\ InitRest

SpecAgain == InitAgain /\ [][Next]_vars

(***************************************************************************)
(* Rich opponents.  One turn of a running game in which the players other   *)
(* than the actor hold the balance that forces a coup; the actor may be     *)
(* down to one card.                                                        *)
(***************************************************************************)
RichCoins == {3, 7}

InitRich ==
    /\ \E roster \in TurnRosters, d \in shuffle_deck, a \in RichCoins,
          lost \in {"u1", None} :
           InitGame(MidGame(roster, d, a, ForcedCoupCoins, lost))
    /\ InitRest

SpecRich == InitRich /\ [][NextTurn]_vars

(***************************************************************************)
(* The wear of the deck.  A game of two players as start deals it, in which *)
(* a player may have lost a card; every turn the current player declares an *)
(* exchange, one command after the other.  An exchange that its handler     *)
(* abandons during the selection has taken its two cards out of the deck.   *)
(***************************************************************************)
WearRoster == <<"u1", "u2">>

InitWear ==
    /\ \E d \in shuffle_deck, lost \in Range(WearRoster) \cup {None} :
           InitGame(MidGame(WearRoster, d, StartCoins, StartCoins, lost))
    /\ InitRest

AcceptWear(author, d) ==
    /\ Idle
    /\ ncmds < MaxWear
    /\ Issue("exchange", author, None, d)

NextWear ==
    \/ \E author \in Users, d \in shuffle_deck : AcceptWear(author, d)
    \/ \E s \in Slots, emoji \in {Challenge, Block, None}, user \in Users \cup {None},
          d \in shuffle_deck, dm_success \in BOOLEAN :
           Window(s, emoji, user, d, dm_success)
    \/ \E s \in Slots, stray \in BOOLEAN :
           \E perm \in Perms(1..Len(cmds[s].all_cards)) : Select(s, perm, stray)

SpecWear == InitWear /\ [][NextWear]_vars

(***************************************************************************)
(* One response window: wait_for_reaction on one prompt.  The table does    *)
(* not change while the window is open.  Users react on the prompt at any   *)
(* time; a reaction made while bot.wait_for listens is offered to           *)
(* check_new_reaction, and the first one it lets through is what wait_for    *)
(* returns.  A reaction made at another time is only seen by the next        *)
(* check_existing_reactions.                                                 *)
(***************************************************************************)
NoReaction == <<None, None>>

check_new_reaction(emoji, user) ==
    /\ Eligible(GS, user, w_init)
    /\ emoji \in Range(w_valid)
    /\ <<emoji, user>> \notin w_processed

\* a variant of check_existing_reactions that finds no reaction
check_existing_reactions_blind == {NoReaction}

\* What check_existing_reactions may return: the reactions are read emoji by
\* emoji, the bot's own (the valid emojis, in order) first; the order of the
\* users of one emoji is the server's.
check_existing_reactions ==
    LET Hits(e) == {r \in Range(w_reactions) :
                        /\ r[1] = e
                        /\ Eligible(GS, r[2], w_init)
                        /\ r \notin w_processed}
        Firsts == {i \in 1..Len(w_valid) :
                        /\ Hits(w_valid[i]) # {}
                        /\ \A j \in 1..(i - 1) : Hits(w_valid[j]) = {}}
    IN IF Firsts = {} THEN {NoReaction}
       ELSE UNION {Hits(w_valid[i]) : i \in Firsts}

\* a variant in which the window goes on after it took a reaction
WinAccept_resumes(r) ==
    /\ w_processed' = w_processed \cup {r}
    /\ w_result' = Append(w_result, r)
    /\ w_pc' = "listen"
    /\ w_event' = <<>>
    /\ UNCHANGED <<w_i, w_valid, w_init, w_reactions>>

\* "processed_reactions.add(...); return emoji, user"
WinAccept(r) ==
    /\ w_processed' = w_processed \cup {r}
    /\ w_result' = Append(w_result, r)
    /\ w_pc' = "done"
    /\ UNCHANGED <<w_i, w_valid, w_init, w_reactions, w_event>>

WinTables ==
    LET two == MidGame(<<"u1", "u2">>, FreshDeck, StartCoins, StartCoins, None)
        three == MidGame(<<"u1", "u2", "u3">>, FreshDeck, StartCoins, StartCoins, None)
        dying == lose_influence_with_reveal(lose_influence_with_reveal(three, "u3"), "u3")
    IN {two, three, dying}

InitWin ==
    /\ \E g \in WinTables : InitGame(g)
    /\ members = Users
    /\ cmds = [s \in Slots |-> CmdIdle]
    /\ announce = "none"
    /\ reply = NoReply
    /\ ncmds = 0
    /\ last = NoLast
    /\ w_pc = "adding"
    /\ w_i = WindowTimeout
    /\ w_valid \in {<<Challenge>>, <<Block, Challenge>>}
    /\ w_init \in {"u1", "u2"}
    /\ w_reactions = <<>>
    /\ w_event = <<>>
    /\ w_processed = {}
    /\ w_result = <<>>

WinRest == UNCHANGED <<gvars, members, cmds, announce, reply, ncmds, last>>

\* A user reacts on the prompt.
React(emoji, user) ==
    /\ w_pc # "idle"
    /\ Len(w_reactions) < MaxReacts
    /\ <<emoji, user>> \notin Range(w_reactions)
    /\ w_reactions' = Append(w_reactions, <<emoji, user>>)
    /\ w_event' = IF w_pc = "listen" /\ w_event = <<>> /\ check_new_reaction(emoji, user)
                  THEN <<emoji, user>> ELSE w_event
    /\ UNCHANGED <<w_pc, w_i, w_valid, w_init, w_processed, w_result>>
    /\ WinRest

\* The bot has added its reactions and slept; the window starts.
WinStart ==
    /\ w_pc = "adding"
    /\ w_pc' = "precheck"
    /\ UNCHANGED <<w_i, w_valid, w_init, w_reactions, w_event, w_processed, w_result>>
    /\ WinRest

\* "Check for existing reactions first"
WinPrecheck(r) ==
    /\ w_pc = "precheck"
    /\ r \in check_existing_reactions
    /\ IF r # NoReaction THEN WinAccept(r)
       ELSE /\ w_pc' = "listen"
            /\ w_i' = WindowTimeout
            /\ UNCHANGED <<w_valid, w_init, w_reactions, w_event, w_processed, w_result>>
    /\ WinRest

\* the next iteration of "for i in range(timeout, -1, -1)", or its end
WinNextI ==
    /\ IF w_i = 0 THEN w_pc' = "timeout" /\ w_i' = w_i
       ELSE w_pc' = "listen" /\ w_i' = w_i - 1
    /\ w_event' = <<>>
    /\ UNCHANGED <<w_valid, w_init, w_reactions, w_processed, w_result>>

\* bot.wait_for returns the reaction it let through.
WinLive ==
    /\ w_pc = "listen"
    /\ w_event # <<>>
    /\ IF w_event \notin w_processed THEN WinAccept(w_event) ELSE WinNextI
    /\ WinRest

\* bot.wait_for times out after a second with no reaction let through.
WinTimeout ==
    /\ w_pc = "listen"
    /\ w_event = <<>>
    /\ w_pc' = "poll"
    /\ UNCHANGED <<w_i, w_valid, w_init, w_reactions, w_event, w_processed, w_result>>
    /\ WinRest

\* "During each countdown second, also check for existing reactions"
WinPoll(r) ==
    /\ w_pc = "poll"
    /\ r \in check_existing_reactions
    /\ IF r # NoReaction THEN WinAccept(r) ELSE WinNextI
    /\ WinRest

NextWin ==
    \/ \E emoji \in {Challenge, Block}, user \in Users : React(emoji, user)
    \/ WinStart
    \/ \E r \in check_existing_reactions : WinPrecheck(r)
    \/ WinLive
    \/ WinTimeout
    \/ \E r \in check_existing_reactions : WinPoll(r)

SpecWin == InitWin /\ [][NextWin]_vars

(***************************************************************************)
(* Properties.                                                              *)
(***************************************************************************)
DeckSize == Copies * Len(KindList)

\* C1: between completed commands the cards of the deck, of the hands of the
\* roster players and of the discard pile are 15 together.
CardConservation ==
    Idle => Len(court_deck) + SumHands(cards, Range(players))
                + Len(discarded_cards) = DeckSize

\* C1 fails after start removed a player whose hand could not be sent
CardsLostWithPlayer ==
    /\ Idle
    /\ game_started
    /\ ncmds = 1
    /\ Len(court_deck) + SumHands(cards, Range(players)) + Len(discarded_cards) < DeckSize

\* C2: while a game runs and no command is mid-resolution, current_player is
\* set, is in the roster and holds a card.
CurrentPlayerAlive ==
    (game_started /\ Idle) =>
        /\ current_player # None
        /\ current_player \in Range(players)
        /\ Len(cards[current_player]) > 0

\* C2 fails when the first player of the shuffled order could not be sent
\* their hand
CurrentPlayerRemoved ==
    /\ game_started
    /\ Idle
    /\ Len(players) >= MinPlayers
    /\ current_player \notin Range(players)

ActionsInFlight == {s \in Slots : cmds[s].kind \in ActionKinds}

\* C3: while an action command is between its acceptance and its end, no
\* other command of the table is accepted.
OneActionAtATime == [][ActionsInFlight # {} => ncmds' = ncmds]_vars

\* C3 fails: two commands of the current player are in their windows at once
TwoActionsInFlight ==
    /\ Cardinality(ActionsInFlight) = 2
    /\ \A s \in ActionsInFlight : cmds[s].author = current_player

\* C4: a response window takes and returns at most one (emoji, user).
AtMostOneResponse ==
    /\ Len(w_result) <= 1
    /\ Cardinality(w_processed) <= 1

\* C4: the window returned one reaction although two users whose reaction it
\* would have taken had reacted
OneOfTwoResponses ==
    /\ w_pc = "done"
    /\ Len(w_result) = 1
    /\ \E i, j \in 1..Len(w_reactions) :
           /\ w_reactions[i][2] # w_reactions[j][2]
           /\ \A k \in {i, j} :
                  /\ w_reactions[k][1] \in Range(w_valid)
                  /\ w_reactions[k][2] \in Range(players)
                  /\ Len(cards[w_reactions[k][2]]) > 0
                  /\ w_reactions[k][2] # w_init

\* C5: the user a response window returns is in the roster, holds a card, is
\* not the initiator and reacted with a valid emoji.
ResponderEligible ==
    \A i \in 1..Len(w_result) :
        /\ w_result[i][2] \in Range(players)
        /\ Len(cards[w_result[i][2]]) > 0
        /\ w_result[i][2] # w_init
        /\ w_result[i][1] \in Range(w_valid)

\* C5: a reaction was returned after the initiator and a user who is not in
\* the roster or holds no card had reacted with the same emoji
ResponderAfterOthers ==
    /\ Len(w_result) = 1
    /\ \E i, j, k \in 1..Len(w_reactions) :
           /\ i < k /\ j < k
           /\ w_reactions[k] = w_result[1]
           /\ w_reactions[i] = <<w_result[1][1], w_init>>
           /\ w_reactions[j][1] = w_result[1][1]
           /\ \/ w_reactions[j][2] \notin Range(players)
              \/ Len(cards[w_reactions[j][2]]) = 0

\* C6: after game-over was declared the table is reset: no game, no current
\* player, an empty roster, a fresh deck and an empty discard pile.
GameOverResets ==
    announce = "game_over" =>
        /\ ~game_started
        /\ current_player = None
        /\ players = <<>>
        /\ IsFreshDeck(court_deck)
        /\ discarded_cards = <<>>

\* C6 fails when the game is won because the next player left the server
GameOverKeepsDeck ==
    /\ announce = "game_over"
    /\ ~game_started
    /\ players = <<>>
    /\ Len(court_deck) < DeckSize

NotCoup == ActionKinds \ {"coup"}
TargetsOf(kind) == IF kind \in Targeted THEN Users ELSE {None}
MustCoup == /\ game_started
            /\ current_player \in Range(players)
            /\ coins[current_player] >= ForcedCoupCoins
\* the target is another player of the roster who holds a card
GoodTarget(author, target) ==
    /\ target \in members
    /\ target \in Range(players)
    /\ Len(cards[target]) > 0
    /\ target # author

\* C7 as amended: a current player with 10 or more coins has every command
\* but coup rejected, with the forced-coup reason when the command has no
\* target or its target is another living player of the roster; a coup on
\* such a target is accepted; a rejection changes no table state.
ForcedCoupOnGoodTarget ==
    /\ [](MustCoup =>
            /\ \A kind \in NotCoup : \A target \in TargetsOf(kind) :
                   /\ Reason(kind, current_player, target) # "ok"
                   /\ (kind \in Untargeted \/ GoodTarget(current_player, target))
                          => Reason(kind, current_player, target) = "must_coup"
            /\ \A target \in Users : GoodTarget(current_player, target)
                   => Reason("coup", current_player, target) = "ok")
    /\ [][reply' # reply => UNCHANGED gvars]_vars

\* C7 as stated: every command but coup of a current player with 10 or more
\* coins is rejected with the forced-coup reason, whatever its target.
ForcedCoupAnyTarget ==
    (MustCoup /\ reply.author = current_player /\ reply.kind \in NotCoup)
        => reply.reason = "must_coup"

\* C7: a steal from another player was rejected with the forced-coup reason
ForcedCoupRejected ==
    /\ MustCoup
    /\ reply.kind = "steal"
    /\ reply.author = current_player
    /\ GoodTarget(reply.author, reply.target)
    /\ reply.reason = "must_coup"

\* the preconditions of a command, read off the table
FailsPrecondition(kind, author, target) ==
    \/ author # current_player
    \/ /\ kind \in Targeted
       /\ \/ target \notin Range(players)
          \/ Len(cards[target]) = 0
          \/ target = author
    \/ kind = "coup" /\ coins[author] < CoupCost
    \/ kind = "assassinate" /\ coins[author] < AssassinateCost

\* C8: a command that fails a precondition is rejected; a rejection leaves
\* the table as it was, and the same command is rejected again for the same
\* reason.
RejectedWithoutEffect ==
    /\ [](\A kind \in ActionKinds, author \in Users :
            \A target \in TargetsOf(kind) :
                FailsPrecondition(kind, author, target)
                    => Reason(kind, author, target) # "ok")
    /\ [][reply' # reply =>
            /\ UNCHANGED gvars
            /\ \A kind \in ActionKinds, author \in Users, target \in Users \cup {None} :
                   (reply'.kind = kind /\ reply'.author = author /\ reply'.target = target)
                       => /\ Reason(kind, author, target) = reply'.reason
                          /\ Reason(kind, author, target)' = reply'.reason]_vars

\* C8: a coup of the current player was rejected for its cost
CoupRejectedForCoins ==
    /\ reply.kind = "coup"
    /\ reply.author = current_player
    /\ reply.reason = "insufficient_coins"
    /\ coins[reply.author] < CoupCost

\* C9: no roster player has a negative balance, in any state.
CoinsNonNegative == \A p \in Range(players) : coins[p] >= 0

\* C9: a player paid their last coins while another of their commands was
\* in its window
PaidLastCoins ==
    /\ ncmds = 2
    /\ Cardinality(ActionsInFlight) = 2
    /\ \E s \in ActionsInFlight :
           /\ cmds[s].kind = "assassinate"
           /\ cmds[s].author \in Range(players)
           /\ coins[cmds[s].author] = 0

\* C10: a hand has at most two cards, and while a game runs and no command
\* is mid-resolution every roster player holds a card.
HandsBounded ==
    /\ \A p \in Range(players) : Len(cards[p]) <= 2
    /\ (game_started /\ Idle) => \A p \in Range(players) : Len(cards[p]) >= 1

\* C10: a player lost both cards and left the roster, and the game goes on
PlayerEliminated ==
    /\ game_started
    /\ Idle
    /\ ncmds >= 1
    /\ Len(players) = 2
    /\ Len(discarded_cards) >= 2
    /\ \A p \in Range(players) : Len(cards[p]) >= 1

(***************************************************************************)
(* Properties of the resolution of one action.                              *)
(***************************************************************************)
\* a step of a handler that resumes from a response window
WindowStep == last'.op = "window" /\ cmds' # cmds
\* the window returned a challenge
Challenged(l) == l.op = "window" /\ l.emoji = Challenge
\* the player whose claim the window was about, and the cards that prove it
Accused(l) == IF l.pc = "w2" THEN l.reactor ELSE l.author
ClaimOf(l) ==
    IF l.pc = "w2"
    THEN CASE l.kind = "foreign_aid" -> {"Duke"}
           [] l.kind = "assassinate" -> {"Contessa"}
           [] l.kind = "steal" -> {"Captain", "Ambassador"}
           [] OTHER -> {}
    ELSE CASE l.kind = "tax" -> {"Duke"}
           [] l.kind = "assassinate" -> {"Assassin"}
           [] l.kind = "steal" -> {"Captain"}
           [] l.kind = "exchange" -> {"Ambassador"}
           [] OTHER -> {}
HoldsClaim(l) == ClaimOf(l) \cap Range(cards[Accused(l)]) # {}

\* C11: a challenged claim is upheld exactly when the hand of the accused
\* holds a card of the claimed set, whatever the deck, the coins, the other
\* hands and the shuffles.
ChallengeByHandOnly ==
    [][(WindowStep /\ Challenged(last')) => (last'.legit <=> HoldsClaim(last'))]_vars

\* C11: the block of a steal was challenged and upheld
StealBlockUpheld ==
    /\ Challenged(last)
    /\ last.kind = "steal"
    /\ last.pc = "w2"
    /\ last.legit

\* the first player after p, in the roster order before the step, who holds a
\* card after the step
NextAliveAfter(p) ==
    LET n == Len(players)
        i == IndexOf(players, p)
        at(k) == players[((i - 1 + k) % n) + 1]
        k == CHOOSE k \in 1..n : /\ Len(cards'[at(k)]) > 0
                                 /\ \A j \in 1..(k - 1) : Len(cards'[at(j)]) = 0
    IN at(k)
\* the table after the step is the table of no game
TableReset ==
    /\ ~game_started'
    /\ players' = <<>>
    /\ current_player' = None
    /\ \A u \in Users : cards'[u] = <<>> /\ coins'[u] = 0
\* nobody but the players of S has another hand or another balance after the step
OthersUntouched(S) ==
    \A u \in Range(players') \ S : cards'[u] = cards[u] /\ coins'[u] = coins[u]
\* p lost the last card of their hand to the discard pile, and left the roster
\* with their last card
LostOneCard(p, hand, pile) ==
    /\ cards'[p] = Front(hand)
    /\ discarded_cards' = Append(pile, Last(hand))
    /\ players' = IF Len(hand) = 1 THEN Without(players, p) ELSE players
NoCommandLeft == \A s \in Slots : cmds'[s] = CmdIdle

\* C12: when the claim of the actor (Duke for tax, Assassin for assassinate,
\* Captain for steal, Ambassador for exchange) is challenged and their hand
\* lacks the card, the actor loses exactly one card, which is appended to the
\* discard pile, the effect of the action is not applied (no coin moves, no
\* other hand and no deck changes, no selection opens), the challenger loses
\* nothing and the turn goes to the next living player; when the card was the
\* last of the last opponent, the game is over and the table is reset.
BluffCostsActor ==
    [][(WindowStep /\ Challenged(last') /\ last'.pc = "w1" /\ ~HoldsClaim(last'))
        => LET a == last'.author
           IN /\ NoCommandLeft
              /\ IF last'.ended
                 THEN Len(cards[a]) = 1 /\ Len(players) = 2 /\ TableReset
                 ELSE /\ LostOneCard(a, cards[a], discarded_cards)
                      /\ OthersUntouched({a})
                      /\ a \in Range(players') => coins'[a] = coins[a]
                      /\ court_deck' = court_deck
                      /\ game_started'
                      /\ current_player' = NextAliveAfter(a)
                      /\ current_player' # a]_vars

\* C12: an assassination without the Assassin was challenged; the game goes on
BluffingAssassinCaught ==
    /\ Challenged(last)
    /\ last.pc = "w1"
    /\ last.kind = "assassinate"
    /\ ~last.legit
    /\ ~last.ended
    /\ game_started
    /\ Len(cards[last.target]) > 0

\* the card the accused reveals: the first of the claimed cards they hold, in
\* the order Captain, Ambassador for the block of a steal
ProvenCard(l) ==
    IF l.pc = "w2" /\ l.kind = "steal"
    THEN IF "Captain" \in Range(cards[Accused(l)]) THEN "Captain" ELSE "Ambassador"
    ELSE CHOOSE card \in ClaimOf(l) : TRUE
\* the deck after card went to its bottom and its top card was drawn
DeckAfterSwap(card) == <<card>> \o Front(court_deck)
\* an assassination whose Assassin claim is being challenged
AssassinChallenged(l) == l.kind = "assassinate" /\ l.pc = "w1"

\* C13: when a challenged claim is upheld, the proven card leaves the hand of
\* the accused for the bottom of the deck (index 0) and the accused draws the
\* top card of the deck, so the hand and the deck keep their sizes; the
\* challenger loses exactly one card to the discard pile.  The action that
\* then goes ahead acts in the same step: an exchange draws its two cards, an
\* assassination takes a card of its target, and a game that ends is reset.
UpheldSwapsAndCostsChallenger ==
    [][(WindowStep /\ Challenged(last') /\ HoldsClaim(last'))
        => LET l == last'
               acc == Accused(l)
               ch == l.user
               card == ProvenCard(l)
               swapped == DeckAfterSwap(card)
               n == Len(swapped)
           IN IF l.ended THEN TableReset
              ELSE /\ cards'[acc] = Append(RemoveFirst(cards[acc], card), Last(court_deck))
                   /\ Len(cards'[acc]) = Len(cards[acc])
                   /\ n = Len(court_deck)
                   /\ IF l.kind # "exchange" THEN court_deck' = swapped
                      ELSE IF \E s \in Slots : cmds'[s].pc = "select"
                      THEN court_deck' = SubSeq(swapped, 1, n - 2)
                      ELSE court_deck' = SubSeq(swapped, 1, n - 2)
                                           \o <<swapped[n], swapped[n - 1]>>
                   /\ SubSeq(discarded_cards', 1, Len(discarded_cards) + 1)
                        = Append(discarded_cards, Last(cards[ch]))
                   /\ IF AssassinChallenged(l) /\ l.target = ch
                      THEN /\ cards'[ch] = <<>>
                           /\ Len(discarded_cards')
                                = Len(discarded_cards) + Len(cards[ch])
                      ELSE /\ cards'[ch] = Front(cards[ch])
                           /\ ~AssassinChallenged(l)
                                => Len(discarded_cards') = Len(discarded_cards) + 1]_vars

\* C13: a tax was challenged and the Duke was shown: it lies at the bottom of
\* the deck and the challenger's card is on the discard pile
DukeShownAndSwapped ==
    /\ Challenged(last)
    /\ last.kind = "tax"
    /\ last.legit
    /\ ~last.ended
    /\ court_deck[1] = "Duke"
    /\ Len(cards[last.author]) = 2
    /\ Len(discarded_cards) = 1

\* the window on a block closed with no challenge
BlockStands(l) == l.op = "window" /\ l.pc = "w2" /\ l.emoji = None

\* C14: when a foreign aid, an assassination or a steal is blocked and nobody
\* challenges the block in the second window, the effect of the action is not
\* applied: no hand, no balance (the 3 coins of the assassination stay spent),
\* not the deck, the discard pile or the roster changes, and the turn goes to
\* the next living player.
UnchallengedBlockCancels ==
    [][(WindowStep /\ BlockStands(last'))
        => /\ last'.kind \in {"foreign_aid", "assassinate", "steal"}
           /\ cards' = cards
           /\ coins' = coins
           /\ court_deck' = court_deck
           /\ discarded_cards' = discarded_cards
           /\ players' = players
           /\ game_started'
           /\ NoCommandLeft
           /\ current_player' = NextAliveAfter(last'.author)
           /\ current_player' # last'.author]_vars

\* C14: an assassination paid with the actor's last 3 coins was blocked and
\* the block stood: the target keeps both cards and the actor has no coin
BlockedAssassinationPaid ==
    /\ BlockStands(last)
    /\ last.kind = "assassinate"
    /\ Len(cards[last.target]) = 2
    /\ coins[last.author] = 0
    /\ current_player # last.author

\* the balances after the step are those before it, but for the transfer of
\* n coins from player t to player a
CoinsMoved(a, t, n) ==
    \A u \in Range(players') :
        coins'[u] = coins[u] + (IF u = a THEN n ELSE 0) - (IF u = t THEN n ELSE 0)
\* the hands after the step are those before it, but for the players of S
HandsKept(S) == \A u \in Range(players') \ S : cards'[u] = cards[u]

\* C15: when a block is challenged and the blocker holds a card of the claimed
\* set (Duke for foreign aid, Contessa for assassinate, Captain or Ambassador
\* for steal), the action is cancelled and the challenger loses one influence;
\* otherwise the blocker loses one influence and the effect of the action is
\* applied (+2 coins, the transfer of the steal, or the influence loss of the
\* target) when the game has not ended and the target is still in the roster
\* with a card.  A game that ends in the step is reset.
ChallengedBlockResolves ==
    [][(WindowStep /\ Challenged(last') /\ last'.pc = "w2")
        => LET l == last'
               a == l.author
               t == l.target
               b == l.reactor
               ch == l.user
               pile == discarded_cards
           IN IF l.ended THEN TableReset
              ELSE IF HoldsClaim(l)
              THEN /\ cards'[ch] = Front(cards[ch])
                   /\ discarded_cards' = Append(pile, Last(cards[ch]))
                   /\ Len(cards'[b]) = Len(cards[b])
                   /\ HandsKept({ch, b})
                   /\ CoinsMoved(a, a, 0)
              ELSE CASE l.kind = "foreign_aid" ->
                          /\ cards'[b] = Front(cards[b])
                          /\ discarded_cards' = Append(pile, Last(cards[b]))
                          /\ HandsKept({b})
                          /\ a \in Range(players')
                          /\ coins'[a] = coins[a] + 2
                          /\ CoinsMoved(a, None, 2)
                     [] l.kind = "steal" ->
                          /\ cards'[b] = Front(cards[b])
                          /\ discarded_cards' = Append(pile, Last(cards[b]))
                          /\ HandsKept({b})
                          /\ a \in Range(players')
                          /\ IF t \in Range(players')
                             THEN CoinsMoved(a, t, Min(2, coins[t]))
                             ELSE t = b /\ Len(cards[b]) = 1 /\ CoinsMoved(a, a, 0)
                     [] l.kind = "assassinate" ->
                          /\ CoinsMoved(a, a, 0)
                          /\ HandsKept({b, t})
                          /\ IF t = b
                             THEN /\ cards'[b] = <<>>
                                  /\ b \notin Range(players')
                                  /\ SubSeq(discarded_cards', 1, Len(pile) + 1)
                                       = Append(pile, Last(cards[b]))
                                  /\ Len(discarded_cards') = Len(pile) + Len(cards[b])
                             ELSE /\ cards'[b] = Front(cards[b])
                                  /\ cards'[t] = Front(cards[t])
                                  /\ discarded_cards'
                                       = pile \o <<Last(cards[b]), Last(cards[t])>>]_vars

\* C15: the target of a steal blocked it without Captain or Ambassador and was
\* challenged: they lost a card and two of their three coins
ExposedBlockerRobbed ==
    /\ Challenged(last)
    /\ last.pc = "w2"
    /\ last.kind = "steal"
    /\ ~last.legit
    /\ ~last.ended
    /\ last.reactor = last.target
    /\ Len(cards[last.target]) = 1
    /\ coins[last.target] = 1
    /\ coins[last.author] = 4

\* a step that accepts a command, and a later step of a command
AcceptStep == last'.op = "accept" /\ ncmds' # ncmds
LaterStep == last'.op \in {"window", "select"} /\ cmds' # cmds
\* what the declaration of an action costs its actor
Price(kind) ==
    CASE kind = "coup" -> CoupCost
      [] kind = "assassinate" -> AssassinateCost
      [] OTHER -> 0

\* C16: coup takes 7 coins and assassinate takes 3 coins from the actor when
\* the command is accepted, before any response window returns (the coup has
\* none, the assassination has just opened its first); no later step of the
\* command gives them back, whatever the outcome; and the other actions take
\* no coin from their actor at any step.
CostPaidAtDeclaration ==
    [][/\ AcceptStep =>
            LET a == last'.author
            IN IF game_started'
               THEN /\ a \in Range(players')
                    /\ last'.kind \in {"coup", "assassinate"}
                         => coins'[a] = coins[a] - Price(last'.kind)
                    /\ last'.kind \notin {"coup", "assassinate"}
                         => coins'[a] >= coins[a]
                    /\ last'.kind = "coup" => NoCommandLeft
                    /\ last'.kind = "assassinate"
                         => \E s \in Slots : /\ cmds'[s].kind = "assassinate"
                                             /\ cmds'[s].pc = "w1"
                                             /\ cards' = cards
               ELSE last'.kind = "coup" /\ TableReset
       /\ LaterStep =>
            LET a == last'.author
            IN a \in Range(players')
                 => IF last'.kind = "assassinate" THEN coins'[a] = coins[a]
                    ELSE coins'[a] >= coins[a]]_vars

\* C16: a coup was paid with the actor's 7 coins and took the target's card
CoupPaidInFull ==
    /\ last.op = "accept"
    /\ last.kind = "coup"
    /\ game_started
    /\ coins[last.author] = 0
    /\ Len(cards[last.target]) = 1

\* the players other than t who hold a card
Opponents(t) == {u \in Range(players) \ {t} : Len(cards[u]) > 0}

\* C17: an accepted coup opens no response window; the target loses exactly
\* one card, to the discard pile; a target who lost their last card is removed
\* from the roster, and when exactly one player then remains, who is the
\* actor, the game is over and the table is reset: no game, no roster, no
\* hands, no coins, no current player, a fresh deck and an empty discard pile.
CoupTakesOneCard ==
    [][(AcceptStep /\ last'.kind = "coup")
        => LET a == last'.author
               t == last'.target
           IN /\ NoCommandLeft
              /\ Len(cards[t]) > 0
              /\ IF Len(cards[t]) = 1 /\ Cardinality(Opponents(t)) = 1
                 THEN /\ Opponents(t) = {a}
                      /\ TableReset
                      /\ IsFreshDeck(court_deck')
                      /\ discarded_cards' = <<>>
                      /\ announce' = "game_over"
                 ELSE /\ LostOneCard(t, cards[t], discarded_cards)
                      /\ HandsKept({t})
                      /\ court_deck' = court_deck
                      /\ game_started'
                      /\ a \in Range(players')]_vars

\* C17: a coup took the last card of the last opponent
CoupWinsGame ==
    /\ last.op = "accept"
    /\ last.kind = "coup"
    /\ announce = "game_over"
    /\ ~game_started
    /\ players = <<>>

\* the coins an unopposed action gives its actor
Gain(kind) ==
    CASE kind = "income" -> 1
      [] kind = "foreign_aid" -> 2
      [] kind = "tax" -> 3
      [] OTHER -> 0
\* the step in which an income is accepted, or in which the first window of a
\* foreign aid or a tax closes with no response
UnopposedGain ==
    \/ AcceptStep /\ last'.kind = "income"
    \/ /\ WindowStep
       /\ last'.kind \in {"foreign_aid", "tax"}
       /\ last'.pc = "w1"
       /\ last'.emoji = None

\* C18: income adds exactly 1 coin to the actor, foreign aid exactly 2 and tax
\* exactly 3 when their window expires with no response; no other balance, no
\* hand, not the deck and not the discard pile change, and the turn passes to
\* the next living player.
GainAndPass ==
    [][UnopposedGain
        => LET a == last'.author
           IN /\ coins'[a] = coins[a] + Gain(last'.kind)
              /\ \A u \in Users \ {a} : coins'[u] = coins[u]
              /\ cards' = cards
              /\ court_deck' = court_deck
              /\ discarded_cards' = discarded_cards
              /\ players' = players
              /\ game_started'
              /\ NoCommandLeft
              /\ current_player' = NextAliveAfter(a)
              /\ current_player' # a]_vars

\* C18: nobody answered a tax of the player with 2 coins, who now has 5
TaxCollected ==
    /\ last.op = "window"
    /\ last.kind = "tax"
    /\ last.emoji = None
    /\ coins[last.author] = 5
    /\ current_player # last.author
    /\ discarded_cards = <<>>

\* the step rejects a steal of the current player, who has fewer than 10
\* coins, against another player of the roster who holds a card
GoodStealRejected ==
    /\ reply' # reply
    /\ reply'.kind = "steal"
    /\ reply'.author = current_player
    /\ reply'.author \in Range(players)
    /\ coins[reply'.author] < ForcedCoupCoins
    /\ reply'.target \in Range(players)
    /\ Len(cards[reply'.target]) > 0
    /\ reply'.target # reply'.author
\* the step in which a steal succeeds: its window closed with no response, the
\* challenge of its Captain failed, or the challenge of its block succeeded
StealSucceeds ==
    /\ WindowStep
    /\ last'.kind = "steal"
    /\ ~last'.ended
    /\ \/ last'.pc = "w1" /\ last'.emoji = None
       \/ last'.pc = "w1" /\ last'.emoji = Challenge /\ HoldsClaim(last')
       \/ last'.pc = "w2" /\ last'.emoji = Challenge /\ ~HoldsClaim(last')
    /\ last'.target \in Range(players')
\* the transfer of a steal that succeeds
StealTransfer ==
    StealSucceeds
      => LET a == last'.author
             t == last'.target
         IN /\ CoinsMoved(a, t, Min(2, coins[t]))
            /\ coins'[a] - coins[a] = coins[t] - coins'[t]
            /\ coins'[a] + coins'[t] = coins[a] + coins[t]

\* C19: a steal of the current player (fewer than 10 coins) against a living
\* roster player other than themselves is declared whatever the balance of
\* the target, and when it succeeds exactly min(2, the target's coins) move
\* from the target to the actor: the actor gains what the target loses and
\* the sum of the two balances is unchanged.
StealDeclaredAtAnyBalance == [][~GoodStealRejected /\ StealTransfer]_vars

\* C19: the part of the statement on the transfer of a steal that succeeds
StealMovesMin == [][StealTransfer]_vars

\* C19: a steal against a living player without coins was rejected
StealFromBrokeRejected ==
    /\ reply.kind = "steal"
    /\ reply.reason = "no_coins_to_steal"
    /\ reply.author = current_player
    /\ Len(cards[reply.target]) > 0
    /\ coins[reply.target] = 0

\* the number of the indices of I at which the pool holds a card of kind k
CountAt(pool, I, k) == Cardinality({i \in I : pool[i] = k})
\* the step in which an exchange goes ahead: it draws the two top cards of
\* the deck (after the swap of a proven Ambassador) into the pool
ExchangeDraws ==
    (WindowStep /\ last'.kind = "exchange" /\ \E s \in Slots : cmds'[s].pc = "select")
      => \E s \in Slots :
           LET c == cmds'[s]
               a == c.author
               deck == IF Challenged(last') THEN DeckAfterSwap("Ambassador")
                       ELSE court_deck
               n == Len(deck)
           IN /\ c.pc = "select"
              /\ Len(cards'[a]) = Len(cards[a])
              /\ c.icc = Len(cards[a])
              /\ c.all_cards = cards'[a] \o <<deck[n], deck[n - 1]>>
              /\ court_deck' = SubSeq(deck, 1, n - 2)
\* the step that ends the selection of an exchange: the actor keeps as many
\* cards as before, taken at distinct indices of the pool, and the other cards
\* of the pool are appended to the deck
ExchangeSelects ==
    \E s \in Slots :
       LET c == cmds[s]
           a == c.author
           pool == c.all_cards
           m == Len(court_deck)
       IN /\ c.pc = "select"
          /\ NoCommandLeft
          /\ Len(cards'[a]) = Len(cards[a])
          /\ Len(court_deck') = m + 2
          /\ SubSeq(court_deck', 1, m) = court_deck
          /\ \E I \in SUBSET (1..Len(pool)) :
                /\ Cardinality(I) = Len(cards[a])
                /\ \A k \in Kinds :
                      /\ Count(cards'[a], k) = CountAt(pool, I, k)
                      /\ Count(SubSeq(court_deck', m + 1, m + 2), k)
                           = CountAt(pool, (1..Len(pool)) \ I, k)
          /\ \A k \in Kinds :
                Count(cards'[a], k) + Count(court_deck', k)
                  = Count(pool, k) + Count(court_deck, k)
          /\ HandsKept({a})
          /\ CoinsMoved(a, a, 0)
          /\ discarded_cards' = discarded_cards
SelectStep == LaterStep /\ last'.op = "select"

\* C20: when an exchange goes ahead, the actor draws exactly 2 cards from the
\* deck, keeps exactly as many cards as they held before, chosen by distinct
\* indices from the pool of hand + 2, and every other card of the pool returns
\* to the deck: after the selection the hand and the deck have the sizes they
\* had before the exchange and the cards of hand and deck together are the
\* same.
ExchangeKeepsCards ==
    [][ExchangeDraws /\ (SelectStep => ExchangeSelects)]_vars

\* C20: the statement for the selections made with the numbers of the pool
ExchangeKeepsCardsInRange ==
    [][ExchangeDraws /\ ((SelectStep /\ last'.emoji = "chosen") => ExchangeSelects)]_vars

\* C20: the actor of an exchange, holding one card, reacted with the fourth
\* number on a pool of three: the command died, the two cards drawn are in
\* no hand, not in the deck and not on the discard pile, and the turn is
\* still the actor's
ExchangeAbandoned ==
    /\ last.op = "select"
    /\ last.emoji = "stray"
    /\ Idle
    /\ game_started
    /\ current_player = last.author
    /\ Len(cards[last.author]) = 1
    /\ Len(court_deck) + SumHands(cards, Range(players)) + Len(discarded_cards)
         = DeckSize - 2

(***************************************************************************)
(* Properties of the turn order, of start and of departures.                *)
(***************************************************************************)
\* the step in which an action command ends, with the game going on
ActionCompletes ==
    /\ last'.op \in {"accept", "window", "select"}
    /\ cmds' # cmds \/ ncmds' # ncmds
    /\ NoCommandLeft
    /\ announce' # "command_error"
    /\ game_started'

\* C21: when an action completes and the actor is still in the roster,
\* current_player becomes the next roster entry after the actor, in roster
\* order and wrapping around, that has a non-empty hand; a player who was
\* eliminated or removed is never selected.
TurnToNextAlive ==
    [][(ActionCompletes /\ last'.author \in Range(players'))
        => /\ current_player' = NextAliveAfter(last'.author)
           /\ current_player' \in Range(players')
           /\ Len(cards'[current_player']) > 0]_vars

\* C21: an action of the first of three players completed after the second
\* had left the server: the turn is the actor's again, not the third player's
TurnBackToActor ==
    /\ Idle
    /\ game_started
    /\ last.op \in {"accept", "window", "select"}
    /\ announce # "command_error"
    /\ Len(players) = 2
    /\ current_player = last.author
    /\ last.author = players[1]
    /\ \E u \in Users \ members : u \notin Range(players)

\* the step in which the actor of a command leaves the roster while the game
\* goes on and the command ends
ActorRemoved ==
    /\ last'.op \in {"window", "select"}
    /\ cmds' # cmds
    /\ NoCommandLeft
    /\ announce' # "command_error"
    /\ game_started'
    /\ last'.author \in Range(players)
    /\ last'.author \notin Range(players')

\* C22: when the current player was removed from the roster during the
\* resolution of their own action (by a failed bluff, or by losing a
\* challenge they made against a block), the new current_player is the first
\* remaining roster entry in original order.
TurnToFirstRemaining ==
    [][ActorRemoved => current_player' = players'[1]]_vars

\* C22: the statement for the actor who lost their last card to a challenge
\* they made against a block
TurnToFirstAfterBlockChallenge ==
    [][(ActorRemoved /\ last'.pc = "w2") => current_player' = players'[1]]_vars

\* C22: the second of three players lost their last card to a failed bluff:
\* the turn went to the third player, not to the first remaining roster entry
TurnPastFirstRemaining ==
    /\ Challenged(last)
    /\ last.pc = "w1"
    /\ ~last.legit
    /\ game_started
    /\ last.author = "u2"
    /\ players = <<"u1", "u3">>
    /\ current_player = "u3"

\* the step in which a start ends with the game running
StartSucceeds ==
    \E s \in Slots : /\ cmds[s].kind = "start"
                     /\ cmds[s].pc = "dm"
                     /\ cmds'[s] = CmdIdle
                     /\ game_started'
RECURSIVE CountInHands(_, _, _)
CountInHands(c, S, k) ==
    IF S = {} THEN 0
    ELSE LET p == CHOOSE q \in S : TRUE
         IN Count(c[p], k) + CountInHands(c, S \ {p}, k)

\* C23: game_started becomes true only when at least 2 players joined; after
\* a successful start every roster player has exactly 2 cards, drawn from a
\* fresh deck of 15 cards (3 of each of the 5 kinds), and exactly 2 coins, the
\* discard pile is empty and current_player is the first entry of the roster
\* order.
StartDealsTable ==
    [][/\ (game_started' /\ ~game_started) => Len(players') >= MinPlayers
       /\ StartSucceeds =>
            /\ Len(players') >= MinPlayers
            /\ \A u \in Range(players') :
                  Len(cards'[u]) = 2 /\ coins'[u] = StartCoins
            /\ \A k \in Kinds :
                  Count(court_deck', k) + CountInHands(cards', Range(players'), k)
                    <= Copies
            /\ discarded_cards' = <<>>
            /\ current_player' = players'[1]]_vars

\* C23: the statement without its last clause, for a start that no other
\* command overlaps
StartDealsHands ==
    [][/\ (game_started' /\ ~game_started) => Len(players') >= MinPlayers
       /\ (StartSucceeds /\ ncmds = 1) =>
            /\ Len(players') >= MinPlayers
            /\ \A u \in Range(players') :
                  Len(cards'[u]) = 2 /\ coins'[u] = StartCoins
            /\ \A k \in Kinds :
                  Count(court_deck', k) + CountInHands(cards', Range(players'), k)
                    <= Copies
            /\ discarded_cards' = <<>>
            /\ current_player' = cmds[CHOOSE s \in Slots : cmds[s].pc = "dm"].plist[1]]_vars

\* C23: a start succeeded with two of three players, each with two cards and
\* two coins, and the turn is of the player who was removed
StartedWithoutFirstPlayer ==
    /\ Idle
    /\ game_started
    /\ ncmds = 1
    /\ Len(players) = 2
    /\ \A u \in Range(players) : Len(cards[u]) = 2 /\ coins[u] = StartCoins
    /\ discarded_cards = <<>>
    /\ current_player # players[1]

\* the step in which a start that dealt the hands ends; S is the set of the
\* players it dropped
StartDrops(S) ==
    \E s \in Slots : /\ cmds[s].kind = "start"
                     /\ cmds[s].pc = "dm"
                     /\ cmds'[s] = CmdIdle
                     /\ S = Range(players) \ Range(players')

\* C24: at start a joined player whose private channel is unreachable is
\* dropped from the roster before the cards are dealt, so that no card is
\* ever dealt to a dropped player, and when fewer than 2 players remain the
\* game is aborted with game_started false.
DroppedBeforeDeal ==
    [][\A S \in SUBSET Users :
          StartDrops(S) => /\ \A u \in S : cards[u] = <<>>
                           /\ Len(players') < MinPlayers => ~game_started']_vars

\* C24: the last clause of the statement
AbortBelowTwoPlayers ==
    [][\A S \in SUBSET Users :
          StartDrops(S) => (Len(players') < MinPlayers => ~game_started')]_vars

\* C24: a start was aborted for unreachable players after it had dealt the
\* hands: the deck is short of the cards dealt
StartAbortedAfterDeal ==
    /\ Idle
    /\ ~game_started
    /\ ncmds = 1
    /\ announce = "not_enough_players"
    /\ Len(players) = 1
    /\ Len(court_deck) = DeckSize - 4

\* C25: a roster member who has left the server during the game is removed
\* from the roster as a forced elimination, the win check runs and play
\* continues with another player: after a completed action of a game that
\* goes on, current_player is a roster player who is a member of the server,
\* and is not the actor.
TurnNeverToDeparted ==
    [][ActionCompletes => /\ current_player' \in members
                          /\ current_player' \in Range(players')
                          /\ current_player' # last'.author]_vars

\* C25: the statement for the actions that end in advance_turn with the
\* actor in the roster, without the clause on the actor
AdvanceSkipsDeparted ==
    [][(ActionCompletes /\ last'.author \in Range(players'))
         => /\ current_player' \in members
            /\ current_player' \in Range(players')
            /\ Len(cards'[current_player']) > 0]_vars

\* C25: the actor lost their last card to a failed bluff and the turn was
\* given to a roster player who has left the server
TurnOfDepartedMember ==
    /\ Idle
    /\ game_started
    /\ Challenged(last)
    /\ ~last.legit
    /\ last.author \notin Range(players)
    /\ current_player \in Range(players)
    /\ current_player \notin members

(***************************************************************************)
(* The deck runs short.                                                     *)
(***************************************************************************)
\* the step in which an exchange reaches its draw: its window returned no
\* challenge, or a challenge that the actor won
DrawReached ==
    /\ WindowStep
    /\ last'.kind = "exchange"
    /\ announce' # "command_error"
    /\ Challenged(last') => (last'.legit /\ ~last'.ended)
\* the draw finds fewer than two cards (the swap of the proven card leaves the
\* size of the deck as it was)
ExchangeShort == DrawReached /\ Len(court_deck) < 2
\* roster, hands and coins are as the step found them; an exchange costs
\* nothing, so they are then as they were before the command
TableKept == players' = players /\ cards' = cards /\ coins' = coins

\* C26: when the draw of an exchange needs more cards than the deck holds, the
\* shortage is found before the command changed roster, hands or coins, and
\* the command ends with roster, hands and coins as they were before it.
ShortageBeforeMutation ==
    [][ExchangeShort => TableKept]_vars

\* C26: the statement for the exchanges that were not challenged
UnchallengedShortageAborts ==
    [][(ExchangeShort /\ ~Challenged(last'))
         => (TableKept /\ court_deck' = court_deck /\ NoCommandLeft)]_vars

\* C26: an exchange was challenged with one card in the deck, the actor
\* showed the Ambassador and swapped it, the challenger lost a card, and only
\* then the draw found the deck short
ShortageAfterChallenge ==
    /\ Idle
    /\ game_started
    /\ Challenged(last)
    /\ last.kind = "exchange"
    /\ last.legit
    /\ announce # "command_error"
    /\ Len(court_deck) = 1
    /\ Len(cards[last.user]) = 1
    /\ current_player = last.user
    /\ cards[last.author] # <<"Ambassador">>

\* C27: in a game that start accepted no draw finds the deck short: an
\* exchange that reaches its draw finds two cards or more, and the swap of a
\* proven card finds one card or more.
DrawsNeverShort ==
    [][/\ DrawReached => Len(court_deck) >= 2
       /\ (WindowStep /\ Challenged(last') /\ last'.legit) => Len(court_deck) >= 1]_vars

\* C27: the swap of a proven card finds a card in the deck
SwapNeverShort ==
    [][(WindowStep /\ Challenged(last') /\ last'.legit) => Len(court_deck) >= 1]_vars

\* C27: an exchange that nobody challenged found one card in the deck; the
\* turn passed on
ExchangeOnWornDeck ==
    /\ Idle
    /\ game_started
    /\ last.op = "window"
    /\ last.kind = "exchange"
    /\ last.emoji = None
    /\ announce # "command_error"
    /\ Len(court_deck) = 1
    /\ current_player # last.author

(***************************************************************************)
(* Properties of the response window.                                       *)
(***************************************************************************)
\* the valid reactions of eligible players that are on the prompt
OnPrompt == {r \in Range(w_reactions) :
                r[1] \in Range(w_valid) /\ Eligible(GS, r[2], w_init)}
\* a step in which the window reads the reactions of the prompt
PollStep == w_pc \in {"precheck", "poll"} /\ w_pc' # w_pc

EligibleInOrder == SelectSeq(w_reactions, LAMBDA r : r \in OnPrompt)

\* C29: the response that the window returns is the earliest valid reaction
\* of an eligible player on the prompt; a later one is never returned in its
\* place.
EarliestReactionWins ==
    (w_pc = "done" /\ Len(w_result) = 1) => w_result[1] = EligibleInOrder[1]

\* C29: the statement for the prompts on which one valid reaction of an
\* eligible player was made
OnlyReactionWins ==
    (w_pc = "done" /\ Len(w_result) = 1 /\ Len(EligibleInOrder) = 1)
       => w_result[1] = EligibleInOrder[1]

\* C29: a player challenged, another player blocked after that, and the
\* window returned the block
LaterBlockTaken ==
    /\ w_pc = "done"
    /\ Len(w_result) = 1
    /\ Len(EligibleInOrder) = 2
    /\ EligibleInOrder[1][1] = Challenge
    /\ EligibleInOrder[2][1] = Block
    /\ EligibleInOrder[1][2] # EligibleInOrder[2][2]
    /\ w_result[1] = EligibleInOrder[2]

(***************************************************************************)
(* Termination of a command.                                                *)
(***************************************************************************)
\* a command waits on a response window
InWindow == \E s \in Slots : cmds[s].pc \in {"w1", "w2"}

\* C30: an accepted action command ends, by advance_turn or by the end of the
\* game, with time passing alone: no handler stays suspended for ever when
\* the players make no input.
CommandEnds == (~Idle) ~> Idle

\* C30: the statement for the response windows: a command that waits on a
\* response window leaves it
WindowCloses == InWindow ~> ~InWindow

\* C30: an exchange waits for the choice of its actor, outside any response
\* window, with its two cards drawn
ExchangeAwaitsChoice ==
    \E s \in Slots : /\ cmds[s].pc = "select"
                     /\ cmds[s].kind = "exchange"
                     /\ cmds[s].author \in Range(players)
                     /\ Len(cmds[s].all_cards) = Len(cards[cmds[s].author]) + 2
                     /\ current_player = cmds[s].author
                     /\ ~InWindow

(***************************************************************************)
(* Termination of advance_turn.                                             *)
(***************************************************************************)
\* C31: advance_turn returns: no handler is caught for ever in the search of
\* get_next_player for a player with cards, and the recursion on departed
\* players ends.
AdvanceTurnReturns == announce # "no_return"

\* C31: the only player of the roster holds no card and is current_player;
\* their income was accepted and paid, and advance_turn searches the roster
\* for a player with cards without end
NextPlayerSearchSpins ==
    /\ announce = "no_return"
    /\ last.op = "accept"
    /\ last.kind = "income"
    /\ players = <<last.author>>
    /\ cards[last.author] = <<>>
    /\ current_player = last.author
    /\ ~game_started

(***************************************************************************)
(* The forced coup.                                                         *)
(***************************************************************************)
\* the player who has the turn after the step holds the balance that forces
\* a coup
TurnOfRichPlayer ==
    /\ current_player' \in Range(players')
    /\ coins'[current_player'] >= ForcedCoupCoins

\* C32: whenever an action command ends and a player with 10 or more coins
\* has the turn, whether advance_turn selected them or the handler assigned
\* them after the actor was eliminated by a failed bluff, the forced-coup
\* announcement is made.
ForcedCoupAnnounced ==
    [][(ActionCompletes /\ TurnOfRichPlayer) => announce' = "forced_coup"]_vars

\* C32: the statement for the commands whose actor stays in the roster, which
\* end in advance_turn
AdvanceAnnouncesForcedCoup ==
    [][(ActionCompletes /\ TurnOfRichPlayer /\ last'.author \in Range(players'))
         => announce' = "forced_coup"]_vars

\* C32: the actor lost their last card to a challenge of their claim, and the
\* turn went to a player with 10 coins or more with the plain announcement
RichPlayerNotForced ==
    /\ Idle
    /\ game_started
    /\ Challenged(last)
    /\ ~last.legit
    /\ last.author \notin Range(players)
    /\ current_player \in Range(players)
    /\ coins[current_player] >= ForcedCoupCoins
    /\ announce \in {"turn_order", "turn"}

(***************************************************************************)
(* The discard pile.                                                        *)
(***************************************************************************)
RECURSIVE SumOver(_, _)
SumOver(f, S) == IF S = {} THEN 0
                 ELSE LET x == CHOOSE y \in S : TRUE
                      IN f[x] + SumOver(f, S \ {x})
\* the cards that the step put on the discard pile
Discarded == SubSeq(discarded_cards', Len(discarded_cards) + 1, Len(discarded_cards'))
\* the cards of kind k that left the hands which the step made shorter
LeftHands(k) ==
    SumOver([u \in Users |-> IF Len(cards'[u]) < Len(cards[u])
                            THEN Count(cards[u], k) - Count(cards'[u], k)
                            ELSE 0], Users)
\* the step put on the pile the cards that hands lost, and nothing else: one
\* card for each influence lost (a handler takes at most two between two
\* waits: a lost challenge and the action's own effect)
DiscardAppends ==
    /\ Len(discarded_cards') > Len(discarded_cards)
    /\ SubSeq(discarded_cards', 1, Len(discarded_cards)) = discarded_cards
    /\ Len(Discarded) <= 2
    /\ \A k \in Kinds : Count(Discarded, k) = LeftHands(k)
    /\ \A u \in Users : Len(cards'[u]) < Len(cards[u])
                            => cards'[u] = SubSeq(cards[u], 1, Len(cards'[u]))
\* no hand is shorter after the step
NoInfluenceLost == \A u \in Users : Len(cards'[u]) >= Len(cards[u])

\* C33: within a game the discard pile only grows: a step leaves it as it is,
\* and then no player lost an influence, or it appends the cards that left
\* the hands of the players who lost an influence, one card per influence;
\* the pile is emptied only by the reset that ends the game.
DiscardOnlyGrows ==
    [][\/ discarded_cards' = discarded_cards /\ (game_started' => NoInfluenceLost)
       \/ DiscardAppends
       \/ discarded_cards' = <<>> /\ TableReset /\ announce' = "game_over"]_vars

\* C33: a challenged assassin showed the card; the target lost one card to the
\* challenge and one to the assassination, both on the discard pile
TwoCardsDiscarded ==
    /\ last.op = "window"
    /\ last.kind = "assassinate"
    /\ Challenged(last)
    /\ last.legit
    /\ game_started
    /\ Len(discarded_cards) = 3
    /\ last.target \notin Range(players)

\* C33: the statement on the emptying of the pile, for the whole life of the
\* table: a step that does not extend the pile empties it, and is the reset of
\* a start, of an end or of a win
DiscardEmptiedByReset ==
    [][\/ /\ Len(discarded_cards') >= Len(discarded_cards)
          /\ SubSeq(discarded_cards', 1, Len(discarded_cards)) = discarded_cards
       \/ /\ discarded_cards' = <<>>
          /\ \/ announce' \in {"game_over", "game_ended"}
             \/ \E s \in Slots : cmds'[s].pc = "lobby" /\ cmds[s].pc # "lobby"]_vars

(***************************************************************************)
(* start and end.                                                           *)
(***************************************************************************)
\* a start passed its check and opened its join lobby
LobbyOpens == \E s \in Slots : cmds'[s].pc = "lobby" /\ cmds[s].pc # "lobby"

\* C34: a start issued while game_started is true and an end issued while it
\* is false are rejected and change nothing of the table; a start is accepted
\* only while game_started is false; an accepted end leaves game_started
\* false, the roster empty, no current player, a fresh deck of 15 cards and
\* an empty discard pile.
LifecycleChecks ==
    [][/\ (reply' # reply /\ reply'.kind = "start")
          => (game_started /\ UNCHANGED gvars /\ UNCHANGED cmds)
       /\ (reply' # reply /\ reply'.kind = "end")
          => (~game_started /\ UNCHANGED gvars /\ UNCHANGED cmds)
       /\ LobbyOpens => ~game_started
       /\ announce' = "game_ended"
          => /\ game_started
             /\ TableReset
             /\ IsFreshDeck(court_deck')
             /\ discarded_cards' = <<>>]_vars

\* C34: a start was rejected during the game, and then the game was ended
EndAfterRejectedStart ==
    /\ reply.kind = "start"
    /\ reply.reason = "game_in_progress"
    /\ announce = "game_ended"
    /\ ~game_started
    /\ players = <<>>
    /\ current_player = None
    /\ IsFreshDeck(court_deck)

\* C35: no action command is accepted while game_started is false, also not
\* after a start that was given up: an accepted action finds a game running.
ActionsOnlyInGame ==
    [][AcceptStep => game_started]_vars

\* C35: the statement for the tables that no start has touched since the
\* table was made or since the last end: there is no current player, and
\* every action command fails its turn check
NoActionOnBlankTable ==
    [][(AcceptStep /\ current_player = None) => game_started]_vars

\* C35: a start was given up because one of two players could not be sent
\* their hand; the other player, whom the start had made current player,
\* collected income with game_started false
IncomeWithoutGame ==
    /\ last.op = "accept"
    /\ last.kind = "income"
    /\ ~game_started
    /\ announce = "turn"
    /\ players = <<last.author>>
    /\ Len(cards[last.author]) = 2
    /\ coins[last.author] = StartCoins + 1
    /\ current_player = last.author

(***************************************************************************)
(* The order of the turns.                                                  *)
(***************************************************************************)
\* the step in which the command of the current player ends, the game goes
\* on, and every user is still a member of the server
TurnPasses ==
    /\ ActionCompletes
    /\ last'.author = current_player
    /\ current_player \in Range(players)
    /\ members' = Users

\* C36: with no departures each completed action passes the turn to the next
\* player after the previous current player, in the cyclic order of the
\* roster, who holds a card: no player with cards is skipped and none plays
\* twice in a round.
TurnsFollowRoster ==
    [][TurnPasses => current_player' = NextAliveAfter(current_player)]_vars

\* C36: the statement for the commands whose actor is still in the roster
\* when they end, or was removed by a challenge of their own claim
TurnsFollowRosterUnlessBlockChallenged ==
    [][(TurnPasses /\ ~(last'.pc = "w2" /\ last'.author \notin Range(players')))
         => current_player' = NextAliveAfter(current_player)]_vars

\* C36: the second of three players challenged a block with their last card
\* and lost it: the turn went to the first player, past the third
ThirdPlayerPassedOver ==
    /\ Idle
    /\ game_started
    /\ members = Users
    /\ Challenged(last)
    /\ last.pc = "w2"
    /\ last.legit
    /\ last.user = last.author
    /\ last.author = "u2"
    /\ players = <<"u1", "u3">>
    /\ Len(cards["u3"]) > 0
    /\ current_player = "u1"

(***************************************************************************)
(* One join lobby at a time.                                                *)
(***************************************************************************)
StartsInFlight == {s \in Slots : cmds[s].kind = "start"}

\* the step in which a start ends its countdown and deals the hands
HandsDealt == \E s \in Slots : cmds[s].pc = "lobby" /\ cmds'[s].pc = "dm"

\* C37: a start opens its lobby only while no other start is in its lobby or
\* sending the hands, and the hands are dealt to a table on which no hand
\* was dealt, from the deck of 15 cards its start has reset.
OneLobbyAtATime ==
    [][/\ LobbyOpens => StartsInFlight = {}
       /\ HandsDealt => /\ \A u \in Users : cards[u] = <<>>
                         /\ Len(court_deck) = Copies * Len(KindList)]_vars

\* C37: a start opens its lobby while no start is sending the hands
NoLobbyWhileHandsSent ==
    [][LobbyOpens => \A s \in Slots : cmds[s].pc # "dm"]_vars

\* C37: two starts were in their lobbies together; both have dealt, the
\* second over the hands of the first, from the deck the first had dealt
\* from
HandsDealtTwice ==
    /\ game_started
    /\ \E s \in Slots : cmds[s].pc = "dm"
    /\ players # <<>>
    /\ \A p \in Range(players) : Len(cards[p]) = 2
    /\ discarded_cards = <<>>
    /\ Len(court_deck) + 2 * Len(players) < Copies * Len(KindList)

(***************************************************************************)
(* Commands that outlive their game.                                        *)
(***************************************************************************)
\* the step in which a command accepted before the end of its game goes on
\* after that end
ResumesAfterEnd ==
    /\ ncmds >= 2
    /\ LaterStep

\* C38: a command that was suspended in a response window or in the
\* selection of an exchange when its game was ended changes nothing of the
\* table when it goes on, whether or not a new game was started meanwhile.
EndedGameStaysEnded ==
    [][ResumesAfterEnd => UNCHANGED gvars]_vars

\* C38: before a new start such a command changes nothing but the deck
EndedGameKeepsAllButDeck ==
    [][(ResumesAfterEnd /\ ncmds = 2)
         => UNCHANGED <<players, cards, coins, discarded_cards, game_started,
                        current_player>>]_vars

\* C38: the window of an exchange closed after the end of its game, and the
\* exchange drew its two cards from the deck that end had reset
DeckDrawnAfterEnd ==
    /\ ncmds = 2
    /\ ~game_started
    /\ players = <<>>
    /\ last.op = "window"
    /\ last.kind = "exchange"
    /\ Len(court_deck) = Copies * Len(KindList) - 2

\* C38: an exchange waited for its choice while its game was ended and a new
\* game was dealt; the choice then replaced the new hand of its author
ExchangeReachesNewGame ==
    /\ ncmds = 3
    /\ game_started
    /\ Idle
    /\ last.op = "select"
    /\ last.kind = "exchange"
    /\ last.author \in Range(players)
    /\ Len(court_deck) + 2 * Len(players) # Copies * Len(KindList)

(***************************************************************************)
(* The size of the hands.                                                   *)
(***************************************************************************)
\* a step of the handler of an action command, in a game that goes on
HandlerStep ==
    /\ last'.op \in {"accept", "window", "select"}
    /\ (cmds' # cmds \/ ncmds' # ncmds)
    /\ game_started
    /\ game_started'

\* C39: no step of an action command leaves a player with more cards than
\* the player held before it; the selection that ends an exchange leaves
\* its author with as many cards as the author held before the selection.
HandNeverGrows ==
    [][HandlerStep => \A u \in Users : Len(cards'[u]) <= Len(cards[u])]_vars

\* C39: the statement for the steps that are not the selection of an
\* exchange
HandNeverGrowsButBySelection ==
    [][(HandlerStep /\ last'.op # "select")
         => \A u \in Users : Len(cards'[u]) <= Len(cards[u])]_vars

\* C39: the author of an exchange lost a card to another command while the
\* exchange waited for the selection, and the selection gave back two
HandRestoredToOldSize ==
    /\ game_started
    /\ last.op = "select"
    /\ last.kind = "exchange"
    /\ Len(cards[last.author]) = 2
    /\ Len(discarded_cards) = 1
    /\ \A u \in Range(players) : Len(cards[u]) = 2

(***************************************************************************)
(* The size of the deck.                                                    *)
(***************************************************************************)
\* the cards the deck holds after the players of OrderRoster were dealt
\* their hands
DeckAfterDeal == Copies * Len(KindList) - 2 * Len(OrderRoster)

\* C40: in a game whose n players were dealt two cards each the deck holds
\* 15 - 2n cards whenever no command is running.
DeckSizeFixed ==
    (Idle /\ game_started) => Len(court_deck) = DeckAfterDeal

\* C40: the statement for the commands that did not die in the selection of
\* an exchange
DeckSizeFixedUnlessSelectionDied ==
    [][(/\ last'.op \in {"accept", "window", "select"}
        /\ (cmds' # cmds \/ ncmds' # ncmds)
        /\ \A s \in Slots : cmds'[s] = CmdIdle
        /\ game_started'
        /\ last'.emoji # "stray")
         => Len(court_deck') = DeckAfterDeal]_vars

\* C40: an exchange died in its selection and the game goes on with a deck
\* two cards short
DeckTwoShort ==
    /\ Idle
    /\ game_started
    /\ last.kind = "exchange"
    /\ last.emoji = "stray"
    /\ Len(court_deck) = DeckAfterDeal - 2

====
